---- MODULE Spec2Model ----
(***************************************************************************)
(* Model of the analysis core of the resume-analysis service               *)
(* (src/src/services/feedback_analyzer.py): the compliance auditor         *)
(* (check_warnings and its four checks) and the value / competency scorer. *)
(*                                                                         *)
(* Text.  A Python str is a sequence of characters.  An ASCII character is *)
(* the one-character string itself ("a", ".", " ", "\n").  A Hangul        *)
(* syllable is "#" followed by its jamo-by-jamo romanisation, the final    *)
(* consonant after a hyphen: 아버지 is <<"#a", "#beo", "#ji">>, 형 is        *)
(* <<"#hyeo-ng">>.  The encoding is one-to-one, so equality and substring  *)
(* tests on the sequences are those of the Python strings.                 *)
(*                                                                         *)
(* Regular expressions.  A compiled pattern is the syntax tree Python's    *)
(* parser gives for it (Str, In, NotIn, AnyChar, Cat, Alt, Rep, WordB,         *)
(* NotAhead, NotBehind); Ends(r, s, i) lists the offsets at which a match  *)
(* of r that starts at offset i of s can end, in the order the backtracking*)
(* matcher tries them (alternatives left to right, repetitions greedy).    *)
(***************************************************************************)
EXTENDS Integers, Sequences, FiniteSets, TLC

VARIABLES call, args, result, _cache, calls

vars == <<call, args, result, _cache, calls>>

(***************************************************************************)
(* Characters                                                              *)
(***************************************************************************)
AsciiLower ==
  {"a", "b", "c", "d", "e", "f", "g", "h", "i", "j", "k", "l", "m",
   "n", "o", "p", "q", "r", "s", "t", "u", "v", "w", "x", "y", "z"}

AsciiUpper ==
  {"A", "B", "C", "D", "E", "F", "G", "H", "I", "J", "K", "L", "M",
   "N", "O", "P", "Q", "R", "S", "T", "U", "V", "W", "X", "Y", "Z"}

AsciiDigit ==
  {"0", "1", "2", "3", "4", "5", "6", "7", "8", "9"}

AsciiSpace ==
  {" ", "\t", "\n", "\r", "\f"}

\* (the backquote is left out: a TLA+ string cannot hold it)
AsciiPunct ==
  {"!", "\"", "#", "$", "%", "&", "'", "(", ")", "*", "+", ",", "-", ".",
   "/", ":", ";", "<", "=", ">", "?", "@", "[", "\\", "]", "^", "_",
   "{", "|", "}", "~"}

Ascii == AsciiLower \cup AsciiUpper \cup AsciiDigit \cup AsciiSpace \cup AsciiPunct

\* str.lower() on one character (Hangul has no case)
LowerChar(c) ==
  IF c \notin AsciiUpper THEN c ELSE
  CASE c = "A" -> "a" [] c = "B" -> "b" [] c = "C" -> "c" [] c = "D" -> "d"
    [] c = "E" -> "e" [] c = "F" -> "f" [] c = "G" -> "g" [] c = "H" -> "h"
    [] c = "I" -> "i" [] c = "J" -> "j" [] c = "K" -> "k" [] c = "L" -> "l"
    [] c = "M" -> "m" [] c = "N" -> "n" [] c = "O" -> "o" [] c = "P" -> "p"
    [] c = "Q" -> "q" [] c = "R" -> "r" [] c = "S" -> "s" [] c = "T" -> "t"
    [] c = "U" -> "u" [] c = "V" -> "v" [] c = "W" -> "w" [] c = "X" -> "x"
    [] c = "Y" -> "y" [] c = "Z" -> "z" [] OTHER -> c

\* str.upper() on one character
UpperChar(c) ==
  IF c \notin AsciiLower THEN c ELSE
  CASE c = "a" -> "A" [] c = "b" -> "B" [] c = "c" -> "C" [] c = "d" -> "D"
    [] c = "e" -> "E" [] c = "f" -> "F" [] c = "g" -> "G" [] c = "h" -> "H"
    [] c = "i" -> "I" [] c = "j" -> "J" [] c = "k" -> "K" [] c = "l" -> "L"
    [] c = "m" -> "M" [] c = "n" -> "N" [] c = "o" -> "O" [] c = "p" -> "P"
    [] c = "q" -> "Q" [] c = "r" -> "R" [] c = "s" -> "S" [] c = "t" -> "T"
    [] c = "u" -> "U" [] c = "v" -> "V" [] c = "w" -> "W" [] c = "x" -> "X"
    [] c = "y" -> "Y" [] c = "z" -> "Z" [] OTHER -> c

\* a character class of a pattern: [가-힣], \s, \d, \w
InClass(k, c) ==
  CASE k = "hangul" -> c \notin Ascii
    [] k = "space"  -> c \in AsciiSpace
    [] k = "digit"  -> c \in AsciiDigit
    [] k = "lower"  -> c \in AsciiLower
    [] k = "upper"  -> c \in AsciiUpper
    [] k = "word"   -> c \notin Ascii \/ c \in AsciiLower \cup AsciiUpper \cup AsciiDigit \cup {"_"}

(***************************************************************************)
(* Strings                                                                 *)
(***************************************************************************)
\* s.lower()
Lower(s) == SubSeq([i \in 1..Len(s) |-> LowerChar(s[i])], 1, Len(s))

\* s.upper()
Upper(s) == SubSeq([i \in 1..Len(s) |-> UpperChar(s[i])], 1, Len(s))

\* s[a:b] for 0 <= a, with b clipped to len(s)
Slice(s, a, b) == SubSeq(s, a + 1, IF b < Len(s) THEN b ELSE Len(s))

\* sub in s
Contains(sub, s) ==
  \/ sub = <<>>
  \/ \E i \in 1..(Len(s) - Len(sub) + 1) :
       s[i] = sub[1] /\ \A j \in 2..Len(sub) : s[i + j - 1] = sub[j]

\* s.strip()
Strip(s) ==
  LET keep == {i \in 1..Len(s) : s[i] \notin AsciiSpace}
  IN  IF keep = {} THEN <<>>
      ELSE SubSeq(s, CHOOSE i \in keep : \A j \in keep : i <= j,
                     CHOOSE i \in keep : \A j \in keep : j <= i)

(***************************************************************************)
(* Regular expressions                                                     *)
(***************************************************************************)
Unbounded == -1

Str(s) == [t |-> "str", s |-> s]
In(s, k) == [t |-> "in", s |-> s, k |-> k]
NotIn(s, k) == [t |-> "notin", s |-> s, k |-> k]
AnyChar == [t |-> "any"]
Cat(rs) == [t |-> "cat", rs |-> rs]
Alt(rs) == [t |-> "alt", rs |-> rs]
Rep(lo, hi, r) == [t |-> "rep", lo |-> lo, hi |-> hi, r |-> r]
WordB == [t |-> "wordb"]
NotAhead(r) == [t |-> "nahead", r |-> r]
NotBehind(w, r) == [t |-> "nbehind", w |-> w, r |-> r]

\* membership of a character in a bracket class
InSet(r, c) == c \in r.s \/ \E k \in r.k : InClass(k, c)

\* is the character before offset i + 1 (that is s[i]) a word character
WordAt(s, i) == i >= 1 /\ i <= Len(s) /\ InClass("word", s[i])

RECURSIVE Ends(_, _, _)
RECURSIVE CatEnds(_, _, _, _)
RECURSIVE CatFrom(_, _, _, _)
RECURSIVE AltEnds(_, _, _, _)
RECURSIVE RepEnds(_, _, _, _)
RECURSIVE RepFrom(_, _, _, _)

Ends(r, s, i) ==
  CASE r.t = "str" ->
         IF i + Len(r.s) <= Len(s) /\ \A j \in 1..Len(r.s) : s[i + j] = r.s[j]
         THEN <<i + Len(r.s)>> ELSE <<>>
    [] r.t = "in" -> IF i < Len(s) /\ InSet(r, s[i + 1]) THEN <<i + 1>> ELSE <<>>
    [] r.t = "notin" -> IF i < Len(s) /\ ~InSet(r, s[i + 1]) THEN <<i + 1>> ELSE <<>>
    [] r.t = "any" -> IF i < Len(s) /\ s[i + 1] # "\n" THEN <<i + 1>> ELSE <<>>
    [] r.t = "cat" -> CatEnds(r.rs, 1, s, i)
    [] r.t = "alt" -> AltEnds(r.rs, 1, s, i)
    [] r.t = "rep" -> RepEnds(r, 0, s, i)
    [] r.t = "wordb" -> IF WordAt(s, i) # WordAt(s, i + 1) THEN <<i>> ELSE <<>>
    [] r.t = "nahead" -> IF Ends(r.r, s, i) = <<>> THEN <<i>> ELSE <<>>
    [] r.t = "nbehind" ->
         IF i >= r.w /\ Ends(r.r, s, i - r.w) # <<>> THEN <<>> ELSE <<i>>

\* rs[k], rs[k + 1], ... matched one after the other from offset i
CatEnds(rs, k, s, i) ==
  IF k > Len(rs) THEN <<i>> ELSE CatFrom(Ends(rs[k], s, i), rs, k + 1, s)

CatFrom(es, rs, k, s) ==
  IF es = <<>> THEN <<>>
  ELSE CatEnds(rs, k, s, Head(es)) \o CatFrom(Tail(es), rs, k, s)

\* the alternatives rs[k], rs[k + 1], ... tried in order
AltEnds(rs, k, s, i) ==
  IF k > Len(rs) THEN <<>> ELSE Ends(rs[k], s, i) \o AltEnds(rs, k + 1, s, i)

\* greedy repetition: n iterations done; one more is tried before stopping
RepEnds(r, n, s, i) ==
  LET more == IF r.hi = Unbounded \/ n < r.hi
              THEN RepFrom(SelectSeq(Ends(r.r, s, i), LAMBDA e : e > i), r, n + 1, s)
              ELSE <<>>
  IN  more \o (IF n >= r.lo THEN <<i>> ELSE <<>>)

RepFrom(es, r, n, s) ==
  IF es = <<>> THEN <<>>
  ELSE RepEnds(r, n, s, Head(es)) \o RepFrom(Tail(es), r, n, s)

\* pattern.search(s) is not None
Search(r, s) == \E i \in 0..Len(s) : Ends(r, s, i) # <<>>

\* pattern.search(s) from offset `from`: <<start, end>> of the leftmost match,
\* <<-1, -1>> when there is none
MatchFrom(r, s, from) ==
  LET starts == {i \in from..Len(s) : Ends(r, s, i) # <<>>}
      start == CHOOSE i \in starts : \A j \in starts : i <= j
  IN  IF starts = {} THEN <<-1, -1>> ELSE <<start, Head(Ends(r, s, start))>>

\* pattern.search(s).group()
Group(r, s) == LET m == MatchFrom(r, s, 0) IN SubSeq(s, m[1] + 1, m[2])

\* the spans of the non-overlapping matches of r in s from offset `from`, left
\* to right, given the set `starts` of the offsets at which r matches
RECURSIVE SpansIn(_, _, _, _)
SpansIn(r, s, starts, from) ==
  LET later == {i \in starts : i >= from}
      start == CHOOSE i \in later : \A j \in later : i <= j
      end   == Head(Ends(r, s, start))
  IN  IF later = {} THEN <<>>
      ELSE << <<start, end>> >> \o SpansIn(r, s, starts, IF end > start THEN end ELSE start + 1)

\* the spans of the non-overlapping matches of r in s, left to right
Spans(r, s, from) == SpansIn(r, s, {i \in 0..Len(s) : Ends(r, s, i) # <<>>}, from)

\* pattern.split(s): the pieces between the matches
RECURSIVE SplitAt(_, _, _)
SplitAt(s, spans, from) ==
  IF spans = <<>> THEN <<SubSeq(s, from + 1, Len(s))>>
  ELSE <<SubSeq(s, from + 1, Head(spans)[1])>> \o SplitAt(s, Tail(spans), Head(spans)[2])

Split(r, s) == SplitAt(s, Spans(r, s, 0), 0)

(***************************************************************************)
(* Pattern and keyword tables                                             *)
(***************************************************************************)
\* the three school-name rules, in rule-list order
_SCHOOL_PATTERNS ==
  <<
     \* r"[가-힣]+대학교"
     Cat(<<Rep(1, Unbounded, In({}, {"hangul"})), Str(<<"#dae", "#ha-g", "#gyo">>)>>),
     \* r"[가-힣]+대학"
     Cat(<<Rep(1, Unbounded, In({}, {"hangul"})), Str(<<"#dae", "#ha-g">>)>>),
     \* r"(서울|연세|고려|성균관|한양|중앙|경희|한국외국어|서강|이화|숙명|건국|동국|홍익|국민|세종|단국|인하|아주|경북|부산|전남|전북|충남|충북|강원|제주)대"
     Cat(<<Alt(<<Str(<<"#seo", "#u-l">>), Str(<<"#yeo-n", "#se">>), Str(<<"#go", "#ryeo">>),
       Str(<<"#seo-ng", "#gyu-n", "#gwa-n">>), Str(<<"#ha-n", "#ya-ng">>), Str(<<"#ju-ng",
       "#a-ng">>), Str(<<"#gyeo-ng", "#hui">>), Str(<<"#ha-n", "#gu-g", "#oe", "#gu-g",
       "#eo">>), Str(<<"#seo", "#ga-ng">>), Str(<<"#i", "#hwa">>), Str(<<"#su-g",
       "#myeo-ng">>), Str(<<"#geo-n", "#gu-g">>), Str(<<"#do-ng", "#gu-g">>), Str(<<"#ho-ng",
       "#i-g">>), Str(<<"#gu-g", "#mi-n">>), Str(<<"#se", "#jo-ng">>), Str(<<"#da-n",
       "#gu-g">>), Str(<<"#i-n", "#ha">>), Str(<<"#a", "#ju">>), Str(<<"#gyeo-ng", "#bu-g">>),
       Str(<<"#bu", "#sa-n">>), Str(<<"#jeo-n", "#na-m">>), Str(<<"#jeo-n", "#bu-g">>),
       Str(<<"#chu-ng", "#na-m">>), Str(<<"#chu-ng", "#bu-g">>), Str(<<"#ga-ng", "#wo-n">>),
       Str(<<"#je", "#ju">>)>>), Str(<<"#dae">>)>>) >>

\* the region-of-origin rule
_REGION_PATTERNS ==
  <<
     \* r"(서울|부산|대구|인천|광주|대전|울산|세종|경기|강원|충북|충남|전북|전남|경북|경남|제주)(\s)?(출신|태생|에서 태어|에서 자라)"
     Cat(<<Alt(<<Str(<<"#seo", "#u-l">>), Str(<<"#bu", "#sa-n">>), Str(<<"#dae", "#gu">>),
       Str(<<"#i-n", "#cheo-n">>), Str(<<"#gwa-ng", "#ju">>), Str(<<"#dae", "#jeo-n">>),
       Str(<<"#u-l", "#sa-n">>), Str(<<"#se", "#jo-ng">>), Str(<<"#gyeo-ng", "#gi">>),
       Str(<<"#ga-ng", "#wo-n">>), Str(<<"#chu-ng", "#bu-g">>), Str(<<"#chu-ng", "#na-m">>),
       Str(<<"#jeo-n", "#bu-g">>), Str(<<"#jeo-n", "#na-m">>), Str(<<"#gyeo-ng", "#bu-g">>),
       Str(<<"#gyeo-ng", "#na-m">>), Str(<<"#je", "#ju">>)>>), Rep(0, 1, In({}, {"space"})),
       Alt(<<Str(<<"#chu-l", "#si-n">>), Str(<<"#tae", "#sae-ng">>), Str(<<"#e", "#seo", " ",
       "#tae", "#eo">>), Str(<<"#e", "#seo", " ", "#ja", "#ra">>)>>)>>) >>

\* short family keywords, matched by boundary patterns
_FAMILY_KEYWORDS_SHORT ==
  <<
     \* r"\b형\b", "형"
     [p |-> Cat(<<WordB, Str(<<"#hyeo-ng">>), WordB>>), word |-> <<"#hyeo-ng">>],
     \* r"\b누나\b", "누나"
     [p |-> Cat(<<WordB, Str(<<"#nu", "#na">>), WordB>>), word |-> <<"#nu", "#na">>],
     \* r"\b오빠\b", "오빠"
     [p |-> Cat(<<WordB, Str(<<"#o", "#ppa">>), WordB>>), word |-> <<"#o", "#ppa">>],
     \* r"\b언니\b", "언니"
     [p |-> Cat(<<WordB, Str(<<"#eo-n", "#ni">>), WordB>>), word |-> <<"#eo-n", "#ni">>],
     \* r"(?<![가-힣])동생(?![가-힣])", "동생"
     [p |-> Cat(<<NotBehind(1, In({}, {"hangul"})), Str(<<"#do-ng", "#sae-ng">>), NotAhead(In({},
       {"hangul"}))>>), word |-> <<"#do-ng", "#sae-ng">>] >>

\* r"\d+(\.\d+)?(%|배|명|건|원|만원|억|개월|주|일|시간|회|개|점|위|등)"
_NUMBER_PATTERN ==
  Cat(<<Rep(1, Unbounded, In({}, {"digit"})), Rep(0, 1, Cat(<<Str(<<".">>), Rep(1, Unbounded,
       In({}, {"digit"}))>>)), Alt(<<Str(<<"%">>), Str(<<"#bae">>), Str(<<"#myeo-ng">>),
       Str(<<"#geo-n">>), Str(<<"#wo-n">>), Str(<<"#ma-n", "#wo-n">>), Str(<<"#eo-g">>),
       Str(<<"#gae", "#wo-l">>), Str(<<"#ju">>), Str(<<"#i-l">>), Str(<<"#si", "#ga-n">>),
       Str(<<"#hoe">>), Str(<<"#gae">>), Str(<<"#jeo-m">>), Str(<<"#wi">>),
       Str(<<"#deu-ng">>)>>)>>)

\* r"[.!?]\s*"
_SENTENCE_SPLIT_PATTERN ==
  Cat(<<In({".", "!", "?"}, {}), Rep(0, Unbounded, In({}, {"space"}))>>)

_RESULT_PATTERNS ==
  <<
     \* r"결과[,\s]"
     Cat(<<Str(<<"#gyeo-l", "#gwa">>), In({","}, {"space"})>>),
     \* r"성과[를가]"
     Cat(<<Str(<<"#seo-ng", "#gwa">>), In({"#reu-l", "#ga"}, {})>>),
     \* r"달성"
     Str(<<"#da-l", "#seo-ng">>),
     \* r"향상"
     Str(<<"#hya-ng", "#sa-ng">>),
     \* r"개선"
     Str(<<"#gae", "#seo-n">>),
     \* r"증가"
     Str(<<"#jeu-ng", "#ga">>),
     \* r"감소"
     Str(<<"#ga-m", "#so">>),
     \* r"절감"
     Str(<<"#jeo-l", "#ga-m">>),
     \* r"수상"
     Str(<<"#su", "#sa-ng">>),
     \* r"선정"
     Str(<<"#seo-n", "#jeo-ng">>) >>

_PERSONAL_CONTEXT_PATTERNS ==
  <<
     \* r"(직업이|직업을|직업은|일을\s*하시|회사에서\s*일|사업을|운영하시|근무하시)"
     Alt(<<Str(<<"#ji-g", "#eo-b", "#i">>), Str(<<"#ji-g", "#eo-b", "#eu-l">>), Str(<<"#ji-g",
       "#eo-b", "#eu-n">>), Cat(<<Str(<<"#i-l", "#eu-l">>), Rep(0, Unbounded, In({},
       {"space"})), Str(<<"#ha", "#si">>)>>), Cat(<<Str(<<"#hoe", "#sa", "#e", "#seo">>),
       Rep(0, Unbounded, In({}, {"space"})), Str(<<"#i-l">>)>>), Str(<<"#sa", "#eo-b",
       "#eu-l">>), Str(<<"#u-n", "#yeo-ng", "#ha", "#si">>), Str(<<"#geu-n", "#mu", "#ha",
       "#si">>)>>),
     \* r"(경제적|가난했|부유했|어려운\s*환경|넉넉한\s*환경|형편이)"
     Alt(<<Str(<<"#gyeo-ng", "#je", "#jeo-g">>), Str(<<"#ga", "#na-n", "#hae-ss">>), Str(<<"#bu",
       "#yu", "#hae-ss">>), Cat(<<Str(<<"#eo", "#ryeo", "#u-n">>), Rep(0, Unbounded, In({},
       {"space"})), Str(<<"#hwa-n", "#gyeo-ng">>)>>), Cat(<<Str(<<"#neo-g", "#neo-g",
       "#ha-n">>), Rep(0, Unbounded, In({}, {"space"})), Str(<<"#hwa-n", "#gyeo-ng">>)>>),
       Str(<<"#hyeo-ng", "#pyeo-n", "#i">>)>>),
     \* r"(학력|학벌|대학을\s*나오|졸업하신)"
     Alt(<<Str(<<"#ha-g", "#ryeo-g">>), Str(<<"#ha-g", "#beo-l">>), Cat(<<Str(<<"#dae", "#ha-g",
       "#eu-l">>), Rep(0, Unbounded, In({}, {"space"})), Str(<<"#na", "#o">>)>>),
       Str(<<"#jo-l", "#eo-b", "#ha", "#si-n">>)>>),
     \* r"(재산|유산|물려받|상속)"
     Alt(<<Str(<<"#jae", "#sa-n">>), Str(<<"#yu", "#sa-n">>), Str(<<"#mu-l", "#ryeo", "#ba-d">>),
       Str(<<"#sa-ng", "#so-g">>)>>),
     \* r"(사회적\s*지위|인맥|연줄)"
     Alt(<<Cat(<<Str(<<"#sa", "#hoe", "#jeo-g">>), Rep(0, Unbounded, In({}, {"space"})),
       Str(<<"#ji", "#wi">>)>>), Str(<<"#i-n", "#mae-g">>), Str(<<"#yeo-n", "#ju-l">>)>>),
     \* r"(돌아가시|별세하|사망하)"
     Alt(<<Str(<<"#do-l", "#a", "#ga", "#si">>), Str(<<"#byeo-l", "#se", "#ha">>), Str(<<"#sa",
       "#ma-ng", "#ha">>)>>) >>

_EXCEPTION_PATTERNS ==
  <<
     \* r"아버지는\s*산"
     Cat(<<Str(<<"#a", "#beo", "#ji", "#neu-n">>), Rep(0, Unbounded, In({}, {"space"})),
       Str(<<"#sa-n">>)>>),
     \* r"어머니는\s*(강|바다)"
     Cat(<<Str(<<"#eo", "#meo", "#ni", "#neu-n">>), Rep(0, Unbounded, In({}, {"space"})),
       Alt(<<Str(<<"#ga-ng">>), Str(<<"#ba", "#da">>)>>)>>),
     \* r"아버지\s*같은"
     Cat(<<Str(<<"#a", "#beo", "#ji">>), Rep(0, Unbounded, In({}, {"space"})), Str(<<"#ga-t",
       "#eu-n">>)>>),
     \* r"어머니\s*같은"
     Cat(<<Str(<<"#eo", "#meo", "#ni">>), Rep(0, Unbounded, In({}, {"space"})), Str(<<"#ga-t",
       "#eu-n">>)>>),
     \* r"부모\s*같은"
     Cat(<<Str(<<"#bu", "#mo">>), Rep(0, Unbounded, In({}, {"space"})), Str(<<"#ga-t", "#eu-n">>)>>),
     \* r"형\s*같은"
     Cat(<<Str(<<"#hyeo-ng">>), Rep(0, Unbounded, In({}, {"space"})), Str(<<"#ga-t", "#eu-n">>)>>),
     \* r"누나\s*같은"
     Cat(<<Str(<<"#nu", "#na">>), Rep(0, Unbounded, In({}, {"space"})), Str(<<"#ga-t", "#eu-n">>)>>),
     \* r"동생\s*같은"
     Cat(<<Str(<<"#do-ng", "#sae-ng">>), Rep(0, Unbounded, In({}, {"space"})), Str(<<"#ga-t",
       "#eu-n">>)>>),
     \* r"가족\s*(같은|처럼)"
     Cat(<<Str(<<"#ga", "#jo-g">>), Rep(0, Unbounded, In({}, {"space"})), Alt(<<Str(<<"#ga-t",
       "#eu-n">>), Str(<<"#cheo", "#reo-m">>)>>)>>),
     \* r"형제\s*(같은|처럼)"
     Cat(<<Str(<<"#hyeo-ng", "#je">>), Rep(0, Unbounded, In({}, {"space"})), Alt(<<Str(<<"#ga-t",
       "#eu-n">>), Str(<<"#cheo", "#reo-m">>)>>)>>),
     \* r"고향\s*(같은|처럼)"
     Cat(<<Str(<<"#go", "#hya-ng">>), Rep(0, Unbounded, In({}, {"space"})), Alt(<<Str(<<"#ga-t",
       "#eu-n">>), Str(<<"#cheo", "#reo-m">>)>>)>>),
     \* r"인심"
     Str(<<"#i-n", "#si-m">>),
     \* r"사람\s*사는\s*정"
     Cat(<<Str(<<"#sa", "#ra-m">>), Rep(0, Unbounded, In({}, {"space"})), Str(<<"#sa", "#neu-n">>),
       Rep(0, Unbounded, In({}, {"space"})), Str(<<"#jeo-ng">>)>>),
     \* r"정이\s*많"
     Cat(<<Str(<<"#jeo-ng", "#i">>), Rep(0, Unbounded, In({}, {"space"})), Str(<<"#ma-nh">>)>>),
     \* r"따뜻한\s*마음"
     Cat(<<Str(<<"#tta", "#tteu-s", "#ha-n">>), Rep(0, Unbounded, In({}, {"space"})), Str(<<"#ma",
       "#eu-m">>)>>),
     \* r"가훈"
     Str(<<"#ga", "#hu-n">>),
     \* r"가치관"
     Str(<<"#ga", "#chi", "#gwa-n">>),
     \* r"교훈"
     Str(<<"#gyo", "#hu-n">>),
     \* r"좌우명"
     Str(<<"#jwa", "#u", "#myeo-ng">>),
     \* r"신념"
     Str(<<"#si-n", "#nyeo-m">>),
     \* r"철학"
     Str(<<"#cheo-l", "#ha-g">>),
     \* r"마음가짐"
     Str(<<"#ma", "#eu-m", "#ga", "#ji-m">>),
     \* r"삶의\s*(자세|태도|방식)"
     Cat(<<Str(<<"#sa-lm", "#ui">>), Rep(0, Unbounded, In({}, {"space"})), Alt(<<Str(<<"#ja",
       "#se">>), Str(<<"#tae", "#do">>), Str(<<"#ba-ng", "#si-g">>)>>)>>),
     \* r"(사랑|봉사|나눔|배려|존중|정직|성실|책임|감사).*바탕"
     Cat(<<Alt(<<Str(<<"#sa", "#ra-ng">>), Str(<<"#bo-ng", "#sa">>), Str(<<"#na", "#nu-m">>),
       Str(<<"#bae", "#ryeo">>), Str(<<"#jo-n", "#ju-ng">>), Str(<<"#jeo-ng", "#ji-g">>),
       Str(<<"#seo-ng", "#si-l">>), Str(<<"#chae-g", "#i-m">>), Str(<<"#ga-m", "#sa">>)>>),
       Rep(0, Unbounded, AnyChar), Str(<<"#ba", "#ta-ng">>)>>),
     \* r"주신\s*(말씀|가르침).*바탕"
     Cat(<<Str(<<"#ju", "#si-n">>), Rep(0, Unbounded, In({}, {"space"})), Alt(<<Str(<<"#ma-l",
       "#sseu-m">>), Str(<<"#ga", "#reu", "#chi-m">>)>>), Rep(0, Unbounded, AnyChar),
       Str(<<"#ba", "#ta-ng">>)>>),
     \* r"(말씀|가르침).*따라"
     Cat(<<Alt(<<Str(<<"#ma-l", "#sseu-m">>), Str(<<"#ga", "#reu", "#chi-m">>)>>), Rep(0, Unbounded,
       AnyChar), Str(<<"#tta", "#ra">>)>>),
     \* r"물려받은\s*(정신|마음|가치)"
     Cat(<<Str(<<"#mu-l", "#ryeo", "#ba-d", "#eu-n">>), Rep(0, Unbounded, In({}, {"space"})),
       Alt(<<Str(<<"#jeo-ng", "#si-n">>), Str(<<"#ma", "#eu-m">>), Str(<<"#ga", "#chi">>)>>)>>) >>

_DIRECT_FAMILY_PATTERNS ==
  <<
     \* r"가정환경이|가정\s*형편이|집안\s*형편"
     Alt(<<Str(<<"#ga", "#jeo-ng", "#hwa-n", "#gyeo-ng", "#i">>), Cat(<<Str(<<"#ga", "#jeo-ng">>),
       Rep(0, Unbounded, In({}, {"space"})), Str(<<"#hyeo-ng", "#pyeo-n", "#i">>)>>),
       Cat(<<Str(<<"#ji-b", "#a-n">>), Rep(0, Unbounded, In({}, {"space"})), Str(<<"#hyeo-ng",
       "#pyeo-n">>)>>)>>) >>

\* IGNORECASE: the patterns are held lower-cased and searched in the lower-cased answer
_ORG_NAME_PATTERNS ==
  <<
     \* r"한국전력|한전", "KEPCO"
     [p |-> Cat(<<Str(<<"#ha-n">>), Alt(<<Str(<<"#gu-g", "#jeo-n", "#ryeo-g">>),
       Str(<<"#jeo-n">>)>>)>>), code |-> <<"K", "E", "P", "C", "O">>],
     \* r"한국가스공사|가스공사", "KOGAS"
     [p |-> Alt(<<Str(<<"#ha-n", "#gu-g", "#ga", "#seu", "#go-ng", "#sa">>), Str(<<"#ga", "#seu",
       "#go-ng", "#sa">>)>>), code |-> <<"K", "O", "G", "A", "S">>],
     \* r"한국수자원공사|수자원공사|K-water", "KWATER"
     [p |-> Alt(<<Str(<<"#ha-n", "#gu-g", "#su", "#ja", "#wo-n", "#go-ng", "#sa">>), Str(<<"#su",
       "#ja", "#wo-n", "#go-ng", "#sa">>), Str(<<"k", "-", "w", "a", "t", "e", "r">>)>>),
       code |-> <<"K", "W", "A", "T", "E", "R">>],
     \* r"한국철도공사|코레일", "KORAIL"
     [p |-> Alt(<<Str(<<"#ha-n", "#gu-g", "#cheo-l", "#do", "#go-ng", "#sa">>), Str(<<"#ko", "#re",
       "#i-l">>)>>), code |-> <<"K", "O", "R", "A", "I", "L">>],
     \* r"한국토지주택공사|LH공사", "LH"
     [p |-> Alt(<<Str(<<"#ha-n", "#gu-g", "#to", "#ji", "#ju", "#tae-g", "#go-ng", "#sa">>),
       Str(<<"l", "h", "#go-ng", "#sa">>)>>), code |-> <<"L", "H">>],
     \* r"국민건강보험공단|건보공단", "NHIS"
     [p |-> Alt(<<Str(<<"#gu-g", "#mi-n", "#geo-n", "#ga-ng", "#bo", "#heo-m", "#go-ng", "#da-n">>),
       Str(<<"#geo-n", "#bo", "#go-ng", "#da-n">>)>>), code |-> <<"N", "H", "I", "S">>],
     \* r"국민연금공단|연금공단", "NPS"
     [p |-> Alt(<<Str(<<"#gu-g", "#mi-n", "#yeo-n", "#geu-m", "#go-ng", "#da-n">>), Str(<<"#yeo-n",
       "#geu-m", "#go-ng", "#da-n">>)>>), code |-> <<"N", "P", "S">>],
     \* r"한국산업인력공단|산인공", "HRDK"
     [p |-> Alt(<<Str(<<"#ha-n", "#gu-g", "#sa-n", "#eo-b", "#i-n", "#ryeo-g", "#go-ng", "#da-n">>),
       Str(<<"#sa-n", "#i-n", "#go-ng">>)>>), code |-> <<"H", "R", "D", "K">>],
     \* r"한국농수산식품유통공사|aT|에이티", "AT"
     [p |-> Alt(<<Str(<<"#ha-n", "#gu-g", "#no-ng", "#su", "#sa-n", "#si-g", "#pu-m", "#yu",
       "#to-ng", "#go-ng", "#sa">>), Str(<<"a", "t">>), Str(<<"#e", "#i", "#ti">>)>>),
       code |-> <<"A", "T">>],
     \* r"한국도로공사|도로공사", "EX"
     [p |-> Alt(<<Str(<<"#ha-n", "#gu-g", "#do", "#ro", "#go-ng", "#sa">>), Str(<<"#do", "#ro",
       "#go-ng", "#sa">>)>>), code |-> <<"E", "X">>] >>

family_keywords_long ==
  <<
     \* "아버지"
     <<"#a", "#beo", "#ji">>,
     \* "어머니"
     <<"#eo", "#meo", "#ni">>,
     \* "부모님"
     <<"#bu", "#mo", "#ni-m">>,
     \* "부친"
     <<"#bu", "#chi-n">>,
     \* "모친"
     <<"#mo", "#chi-n">>,
     \* "할아버지"
     <<"#ha-l", "#a", "#beo", "#ji">>,
     \* "할머니"
     <<"#ha-l", "#meo", "#ni">> >>

abstract_patterns ==
  <<
     \* ("열심히 하겠습니다", "구체적인 계획이나 방법을 제시하세요")
     [phrase |-> <<"#yeo-l", "#si-m", "#hi", " ", "#ha", "#ge-ss", "#seu-b", "#ni",
       "#da">>,
        suggestion |-> <<"#gu", "#che", "#jeo-g", "#i-n", " ", "#gye",
       "#hoe-g", "#i", "#na", " ", "#ba-ng", "#beo-b", "#eu-l", " ", "#je", "#si", "#ha",
       "#se", "#yo">>],
     \* ("최선을 다하겠습니다", "어떻게 최선을 다할 것인지 구체적으로 서술하세요")
     [phrase |-> <<"#choe", "#seo-n", "#eu-l", " ", "#da", "#ha", "#ge-ss", "#seu-b", "#ni",
       "#da">>,
        suggestion |-> <<"#eo", "#tteo-h", "#ge", " ", "#choe", "#seo-n",
       "#eu-l", " ", "#da", "#ha-l", " ", "#geo-s", "#i-n", "#ji", " ", "#gu", "#che",
       "#jeo-g", "#eu", "#ro", " ", "#seo", "#su-l", "#ha", "#se", "#yo">>],
     \* ("열정적으로", "열정의 구체적인 증거나 경험을 제시하세요")
     [phrase |-> <<"#yeo-l", "#jeo-ng", "#jeo-g", "#eu", "#ro">>,
        suggestion |-> <<"#yeo-l",
       "#jeo-ng", "#ui", " ", "#gu", "#che", "#jeo-g", "#i-n", " ", "#jeu-ng", "#geo", "#na",
       " ", "#gyeo-ng", "#heo-m", "#eu-l", " ", "#je", "#si", "#ha", "#se", "#yo">>],
     \* ("성실하게", "성실함을 보여주는 구체적인 경험을 추가하세요")
     [phrase |-> <<"#seo-ng", "#si-l", "#ha", "#ge">>,
        suggestion |-> <<"#seo-ng", "#si-l",
       "#ha-m", "#eu-l", " ", "#bo", "#yeo", "#ju", "#neu-n", " ", "#gu", "#che", "#jeo-g",
       "#i-n", " ", "#gyeo-ng", "#heo-m", "#eu-l", " ", "#chu", "#ga", "#ha", "#se", "#yo">>],
     \* ("노력하겠습니다", "구체적인 실천 방안을 제시하세요")
     [phrase |-> <<"#no", "#ryeo-g", "#ha", "#ge-ss", "#seu-b", "#ni",
       "#da">>,
        suggestion |-> <<"#gu", "#che", "#jeo-g", "#i-n", " ", "#si-l",
       "#cheo-n", " ", "#ba-ng", "#a-n", "#eu-l", " ", "#je", "#si", "#ha", "#se", "#yo">>],
     \* ("귀사의 발전에 기여", "어떤 방식으로 기여할 것인지 구체화하세요")
     [phrase |-> <<"#gwi", "#sa", "#ui", " ", "#ba-l", "#jeo-n", "#e", " ", "#gi",
       "#yeo">>,
        suggestion |-> <<"#eo", "#tteo-n", " ", "#ba-ng", "#si-g", "#eu",
       "#ro", " ", "#gi", "#yeo", "#ha-l", " ", "#geo-s", "#i-n", "#ji", " ", "#gu", "#che",
       "#hwa", "#ha", "#se", "#yo">>],
     \* ("다양한 경험", "'다양한'을 구체적인 경험 나열로 대체하세요")
     [phrase |-> <<"#da", "#ya-ng", "#ha-n", " ", "#gyeo-ng",
       "#heo-m">>,
        suggestion |-> <<"'", "#da", "#ya-ng", "#ha-n", "'", "#eu-l", " ",
       "#gu", "#che", "#jeo-g", "#i-n", " ", "#gyeo-ng", "#heo-m", " ", "#na", "#yeo-l", "#ro",
       " ", "#dae", "#che", "#ha", "#se", "#yo">>],
     \* ("많은 것을 배웠습니다", "무엇을 배웠는지 구체적으로 서술하세요")
     [phrase |-> <<"#ma-nh", "#eu-n", " ", "#geo-s", "#eu-l", " ", "#bae", "#wo-ss", "#seu-b",
       "#ni", "#da">>,
        suggestion |-> <<"#mu", "#eo-s", "#eu-l", " ", "#bae", "#wo-ss",
       "#neu-n", "#ji", " ", "#gu", "#che", "#jeo-g", "#eu", "#ro", " ", "#seo", "#su-l",
       "#ha", "#se", "#yo">>] >>

value_keywords ==
  <<
     \* "고객중심": 고객, 수요자, 국민, 서비스, 만족, 편의, 사용자, 이용자
     [name |-> <<"#go", "#gae-g", "#ju-ng", "#si-m">>,
        keywords |-> <<<<"#go", "#gae-g">>,
       <<"#su", "#yo", "#ja">>, <<"#gu-g", "#mi-n">>, <<"#seo", "#bi", "#seu">>, <<"#ma-n",
       "#jo-g">>, <<"#pyeo-n", "#ui">>, <<"#sa", "#yo-ng", "#ja">>, <<"#i", "#yo-ng", "#ja">>>>],
     \* "고객만족": 고객, 만족, 서비스, 편의, 이용자, 수요자
     [name |-> <<"#go", "#gae-g", "#ma-n", "#jo-g">>,
        keywords |-> <<<<"#go", "#gae-g">>,
       <<"#ma-n", "#jo-g">>, <<"#seo", "#bi", "#seu">>, <<"#pyeo-n", "#ui">>, <<"#i", "#yo-ng",
       "#ja">>, <<"#su", "#yo", "#ja">>>>],
     \* "상생": 상생, 협력, 협업, 파트너, 동반성장, 함께, 공생, 상호
     [name |-> <<"#sa-ng", "#sae-ng">>,
        keywords |-> <<<<"#sa-ng", "#sae-ng">>, <<"#hyeo-b",
       "#ryeo-g">>, <<"#hyeo-b", "#eo-b">>, <<"#pa", "#teu", "#neo">>, <<"#do-ng", "#ba-n",
       "#seo-ng", "#ja-ng">>, <<"#ha-m", "#kke">>, <<"#go-ng", "#sae-ng">>, <<"#sa-ng",
       "#ho">>>>],
     \* "협력": 협력, 협업, 팀워크, 소통, 함께, 공동, 파트너십
     [name |-> <<"#hyeo-b", "#ryeo-g">>,
        keywords |-> <<<<"#hyeo-b", "#ryeo-g">>,
       <<"#hyeo-b", "#eo-b">>, <<"#ti-m", "#wo", "#keu">>, <<"#so", "#to-ng">>, <<"#ha-m",
       "#kke">>, <<"#go-ng", "#do-ng">>, <<"#pa", "#teu", "#neo", "#si-b">>>>],
     \* "혁신": 혁신, 변화, 창의, 개선, 새로운, 도전, 발전, 디지털, AI, 스마트
     [name |-> <<"#hyeo-g", "#si-n">>,
        keywords |-> <<<<"#hyeo-g", "#si-n">>, <<"#byeo-n",
       "#hwa">>, <<"#cha-ng", "#ui">>, <<"#gae", "#seo-n">>, <<"#sae", "#ro", "#u-n">>,
       <<"#do", "#jeo-n">>, <<"#ba-l", "#jeo-n">>, <<"#di", "#ji", "#teo-l">>, <<"A", "I">>,
       <<"#seu", "#ma", "#teu">>>>],
     \* "창의": 창의, 창조, 새로운, 아이디어, 혁신, 독창
     [name |-> <<"#cha-ng", "#ui">>,
        keywords |-> <<<<"#cha-ng", "#ui">>, <<"#cha-ng",
       "#jo">>, <<"#sae", "#ro", "#u-n">>, <<"#a", "#i", "#di", "#eo">>, <<"#hyeo-g",
       "#si-n">>, <<"#do-g", "#cha-ng">>>>],
     \* "전문성": 전문, 역량, 지식, 기술, 숙련, 경험, 노하우, 전문가
     [name |-> <<"#jeo-n", "#mu-n", "#seo-ng">>,
        keywords |-> <<<<"#jeo-n", "#mu-n">>,
       <<"#yeo-g", "#rya-ng">>, <<"#ji", "#si-g">>, <<"#gi", "#su-l">>, <<"#su-g", "#ryeo-n">>,
       <<"#gyeo-ng", "#heo-m">>, <<"#no", "#ha", "#u">>, <<"#jeo-n", "#mu-n", "#ga">>>>],
     \* "청렴": 청렴, 윤리, 투명, 공정, 정직, 신뢰, 도덕, 준법
     [name |-> <<"#cheo-ng", "#ryeo-m">>,
        keywords |-> <<<<"#cheo-ng", "#ryeo-m">>,
       <<"#yu-n", "#ri">>, <<"#tu", "#myeo-ng">>, <<"#go-ng", "#jeo-ng">>, <<"#jeo-ng",
       "#ji-g">>, <<"#si-n", "#roe">>, <<"#do", "#deo-g">>, <<"#ju-n", "#beo-b">>>>],
     \* "정직": 정직, 진실, 성실, 신뢰, 투명
     [name |-> <<"#jeo-ng", "#ji-g">>,
        keywords |-> <<<<"#jeo-ng", "#ji-g">>, <<"#ji-n",
       "#si-l">>, <<"#seo-ng", "#si-l">>, <<"#si-n", "#roe">>, <<"#tu", "#myeo-ng">>>>],
     \* "신뢰": 신뢰, 믿음, 정직, 성실, 책임
     [name |-> <<"#si-n", "#roe">>,
        keywords |-> <<<<"#si-n", "#roe">>, <<"#mi-d",
       "#eu-m">>, <<"#jeo-ng", "#ji-g">>, <<"#seo-ng", "#si-l">>, <<"#chae-g", "#i-m">>>>],
     \* "책임": 책임, 의무, 사명, 역할, 담당, 맡은
     [name |-> <<"#chae-g", "#i-m">>,
        keywords |-> <<<<"#chae-g", "#i-m">>, <<"#ui",
       "#mu">>, <<"#sa", "#myeo-ng">>, <<"#yeo-g", "#ha-l">>, <<"#da-m", "#da-ng">>, <<"#ma-t",
       "#eu-n">>>>],
     \* "안전": 안전, 보안, 예방, 사고, 리스크, 위험관리
     [name |-> <<"#a-n", "#jeo-n">>,
        keywords |-> <<<<"#a-n", "#jeo-n">>, <<"#bo", "#a-n">>,
       <<"#ye", "#ba-ng">>, <<"#sa", "#go">>, <<"#ri", "#seu", "#keu">>, <<"#wi", "#heo-m",
       "#gwa-n", "#ri">>>>],
     \* "소통": 소통, 커뮤니케이션, 대화, 공유, 협의, 논의
     [name |-> <<"#so", "#to-ng">>,
        keywords |-> <<<<"#so", "#to-ng">>, <<"#keo", "#myu",
       "#ni", "#ke", "#i", "#syeo-n">>, <<"#dae", "#hwa">>, <<"#go-ng", "#yu">>, <<"#hyeo-b",
       "#ui">>, <<"#no-n", "#ui">>>>],
     \* "도전": 도전, 시도, 극복, 목표, 성장, 발전
     [name |-> <<"#do", "#jeo-n">>,
        keywords |-> <<<<"#do", "#jeo-n">>, <<"#si", "#do">>,
       <<"#geu-g", "#bo-g">>, <<"#mo-g", "#pyo">>, <<"#seo-ng", "#ja-ng">>, <<"#ba-l",
       "#jeo-n">>>>],
     \* "열정": 열정, 열심, 헌신, 몰입, 적극, 의지
     [name |-> <<"#yeo-l", "#jeo-ng">>,
        keywords |-> <<<<"#yeo-l", "#jeo-ng">>, <<"#yeo-l",
       "#si-m">>, <<"#heo-n", "#si-n">>, <<"#mo-l", "#i-b">>, <<"#jeo-g", "#geu-g">>, <<"#ui",
       "#ji">>>>],
     \* "성장": 성장, 발전, 향상, 진보, 개발, 학습
     [name |-> <<"#seo-ng", "#ja-ng">>,
        keywords |-> <<<<"#seo-ng", "#ja-ng">>, <<"#ba-l",
       "#jeo-n">>, <<"#hya-ng", "#sa-ng">>, <<"#ji-n", "#bo">>, <<"#gae", "#ba-l">>, <<"#ha-g",
       "#seu-b">>>>],
     \* "봉사": 봉사, 기여, 공헌, 나눔, 사회적
     [name |-> <<"#bo-ng", "#sa">>,
        keywords |-> <<<<"#bo-ng", "#sa">>, <<"#gi", "#yeo">>,
       <<"#go-ng", "#heo-n">>, <<"#na", "#nu-m">>, <<"#sa", "#hoe", "#jeo-g">>>>],
     \* "공익": 공익, 공공, 국민, 사회, 기여
     [name |-> <<"#go-ng", "#i-g">>,
        keywords |-> <<<<"#go-ng", "#i-g">>, <<"#go-ng",
       "#go-ng">>, <<"#gu-g", "#mi-n">>, <<"#sa", "#hoe">>, <<"#gi", "#yeo">>>>],
     \* "존중": 존중, 배려, 이해, 포용, 다양성
     [name |-> <<"#jo-n", "#ju-ng">>,
        keywords |-> <<<<"#jo-n", "#ju-ng">>, <<"#bae",
       "#ryeo">>, <<"#i", "#hae">>, <<"#po", "#yo-ng">>, <<"#da", "#ya-ng", "#seo-ng">>>>],
     \* "효율": 효율, 생산성, 최적화, 절감, 개선
     [name |-> <<"#hyo", "#yu-l">>,
        keywords |-> <<<<"#hyo", "#yu-l">>, <<"#sae-ng",
       "#sa-n", "#seo-ng">>, <<"#choe", "#jeo-g", "#hwa">>, <<"#jeo-l", "#ga-m">>, <<"#gae",
       "#seo-n">>>>] >>

ncs_keywords ==
  <<
     \* "의사소통능력": 의사소통, 소통, 커뮤니케이션, 발표, 보고, 문서작성, 경청, 설득, 협의, 전달
     [name |-> <<"#ui", "#sa", "#so", "#to-ng", "#neu-ng",
       "#ryeo-g">>,
        keywords |-> <<<<"#ui", "#sa", "#so", "#to-ng">>, <<"#so",
       "#to-ng">>, <<"#keo", "#myu", "#ni", "#ke", "#i", "#syeo-n">>, <<"#ba-l", "#pyo">>,
       <<"#bo", "#go">>, <<"#mu-n", "#seo", "#ja-g", "#seo-ng">>, <<"#gyeo-ng", "#cheo-ng">>,
       <<"#seo-l", "#deu-g">>, <<"#hyeo-b", "#ui">>, <<"#jeo-n", "#da-l">>>>],
     \* "수리능력": 수리, 계산, 통계, 데이터, 분석, 수치, 정량, 그래프, 엑셀, 숫자
     [name |-> <<"#su", "#ri", "#neu-ng", "#ryeo-g">>,
        keywords |-> <<<<"#su", "#ri">>,
       <<"#gye", "#sa-n">>, <<"#to-ng", "#gye">>, <<"#de", "#i", "#teo">>, <<"#bu-n",
       "#seo-g">>, <<"#su", "#chi">>, <<"#jeo-ng", "#rya-ng">>, <<"#geu", "#rae", "#peu">>,
       <<"#e-g", "#se-l">>, <<"#su-s", "#ja">>>>],
     \* "문제해결능력": 문제해결, 해결, 분석, 원인, 대안, 개선, 극복, 대처, 창의, 혁신
     [name |-> <<"#mu-n", "#je", "#hae", "#gyeo-l", "#neu-ng",
       "#ryeo-g">>,
        keywords |-> <<<<"#mu-n", "#je", "#hae", "#gyeo-l">>, <<"#hae",
       "#gyeo-l">>, <<"#bu-n", "#seo-g">>, <<"#wo-n", "#i-n">>, <<"#dae", "#a-n">>, <<"#gae",
       "#seo-n">>, <<"#geu-g", "#bo-g">>, <<"#dae", "#cheo">>, <<"#cha-ng", "#ui">>,
       <<"#hyeo-g", "#si-n">>>>],
     \* "자기개발능력": 자기개발, 학습, 성장, 역량, 노력, 공부, 자격증, 교육, 훈련, 발전
     [name |-> <<"#ja", "#gi", "#gae", "#ba-l", "#neu-ng",
       "#ryeo-g">>,
        keywords |-> <<<<"#ja", "#gi", "#gae", "#ba-l">>, <<"#ha-g",
       "#seu-b">>, <<"#seo-ng", "#ja-ng">>, <<"#yeo-g", "#rya-ng">>, <<"#no", "#ryeo-g">>,
       <<"#go-ng", "#bu">>, <<"#ja", "#gyeo-g", "#jeu-ng">>, <<"#gyo", "#yu-g">>, <<"#hu-n",
       "#ryeo-n">>, <<"#ba-l", "#jeo-n">>>>],
     \* "자원관리능력": 자원관리, 예산, 일정, 시간관리, 인력, 물자, 효율, 관리, 배분, 조달
     [name |-> <<"#ja", "#wo-n", "#gwa-n", "#ri", "#neu-ng",
       "#ryeo-g">>,
        keywords |-> <<<<"#ja", "#wo-n", "#gwa-n", "#ri">>, <<"#ye",
       "#sa-n">>, <<"#i-l", "#jeo-ng">>, <<"#si", "#ga-n", "#gwa-n", "#ri">>, <<"#i-n",
       "#ryeo-g">>, <<"#mu-l", "#ja">>, <<"#hyo", "#yu-l">>, <<"#gwa-n", "#ri">>, <<"#bae",
       "#bu-n">>, <<"#jo", "#da-l">>>>],
     \* "대인관계능력": 대인관계, 협력, 팀워크, 갈등, 조율, 리더십, 팔로워십, 네트워크, 관계, 조정
     [name |-> <<"#dae", "#i-n", "#gwa-n", "#gye", "#neu-ng",
       "#ryeo-g">>,
        keywords |-> <<<<"#dae", "#i-n", "#gwa-n", "#gye">>, <<"#hyeo-b",
       "#ryeo-g">>, <<"#ti-m", "#wo", "#keu">>, <<"#ga-l", "#deu-ng">>, <<"#jo", "#yu-l">>,
       <<"#ri", "#deo", "#si-b">>, <<"#pa-l", "#ro", "#wo", "#si-b">>, <<"#ne", "#teu", "#wo",
       "#keu">>, <<"#gwa-n", "#gye">>, <<"#jo", "#jeo-ng">>>>],
     \* "정보능력": 정보, 데이터, 시스템, 컴퓨터, IT, 분석, 수집, 활용, 디지털, DB
     [name |-> <<"#jeo-ng", "#bo", "#neu-ng", "#ryeo-g">>,
        keywords |-> <<<<"#jeo-ng",
       "#bo">>, <<"#de", "#i", "#teo">>, <<"#si", "#seu", "#te-m">>, <<"#keo-m", "#pyu",
       "#teo">>, <<"I", "T">>, <<"#bu-n", "#seo-g">>, <<"#su", "#ji-b">>, <<"#hwa-l",
       "#yo-ng">>, <<"#di", "#ji", "#teo-l">>, <<"D", "B">>>>],
     \* "기술능력": 기술, 전문, 숙련, 도구, 장비, 시스템, 개발, 설계, 구현, 운영
     [name |-> <<"#gi", "#su-l", "#neu-ng", "#ryeo-g">>,
        keywords |-> <<<<"#gi", "#su-l">>,
       <<"#jeo-n", "#mu-n">>, <<"#su-g", "#ryeo-n">>, <<"#do", "#gu">>, <<"#ja-ng", "#bi">>,
       <<"#si", "#seu", "#te-m">>, <<"#gae", "#ba-l">>, <<"#seo-l", "#gye">>, <<"#gu",
       "#hyeo-n">>, <<"#u-n", "#yeo-ng">>>>],
     \* "조직이해능력": 조직, 기관, 회사, 문화, 비전, 미션, 전략, 목표, 부서, 업무
     [name |-> <<"#jo", "#ji-g", "#i", "#hae", "#neu-ng",
       "#ryeo-g">>,
        keywords |-> <<<<"#jo", "#ji-g">>, <<"#gi", "#gwa-n">>, <<"#hoe",
       "#sa">>, <<"#mu-n", "#hwa">>, <<"#bi", "#jeo-n">>, <<"#mi", "#syeo-n">>, <<"#jeo-n",
       "#rya-g">>, <<"#mo-g", "#pyo">>, <<"#bu", "#seo">>, <<"#eo-b", "#mu">>>>],
     \* "직업윤리": 윤리, 청렴, 책임, 성실, 정직, 준법, 공정, 도덕, 신뢰, 윤리의식
     [name |-> <<"#ji-g", "#eo-b", "#yu-n", "#ri">>,
        keywords |-> <<<<"#yu-n", "#ri">>,
       <<"#cheo-ng", "#ryeo-m">>, <<"#chae-g", "#i-m">>, <<"#seo-ng", "#si-l">>, <<"#jeo-ng",
       "#ji-g">>, <<"#ju-n", "#beo-b">>, <<"#go-ng", "#jeo-ng">>, <<"#do", "#deo-g">>,
       <<"#si-n", "#roe">>, <<"#yu-n", "#ri", "#ui", "#si-g">>>>] >>

ncs_suggestions ==
  <<
     \* "의사소통능력": "팀 프로젝트에서 의견 조율, 발표 경험, 보고서 작성 등 소통 역량을 보여주는 구체적 사례를 추가하세요. 예: '주간 회의에서 진행 상황을 보고하고, 팀원들의 피드백을 반영하여...'"
     [name |-> <<"#ui", "#sa", "#so", "#to-ng", "#neu-ng", "#ryeo-g">>,
        text |-> <<"#ti-m",
       " ", "#peu", "#ro", "#je-g", "#teu", "#e", "#seo", " ", "#ui", "#gyeo-n", " ", "#jo",
       "#yu-l", ",", " ", "#ba-l", "#pyo", " ", "#gyeo-ng", "#heo-m", ",", " ", "#bo", "#go",
       "#seo", " ", "#ja-g", "#seo-ng", " ", "#deu-ng", " ", "#so", "#to-ng", " ", "#yeo-g",
       "#rya-ng", "#eu-l", " ", "#bo", "#yeo", "#ju", "#neu-n", " ", "#gu", "#che", "#jeo-g",
       " ", "#sa", "#rye", "#reu-l", " ", "#chu", "#ga", "#ha", "#se", "#yo", ".", " ", "#ye",
       ":", " ", "'", "#ju", "#ga-n", " ", "#hoe", "#ui", "#e", "#seo", " ", "#ji-n",
       "#hae-ng", " ", "#sa-ng", "#hwa-ng", "#eu-l", " ", "#bo", "#go", "#ha", "#go", ",", " ",
       "#ti-m", "#wo-n", "#deu-l", "#ui", " ", "#pi", "#deu", "#bae-g", "#eu-l", " ", "#ba-n",
       "#yeo-ng", "#ha", "#yeo", ".", ".", ".", "'">>],
     \* "수리능력": "데이터 분석, 통계 활용, 수치 기반 의사결정 경험을 구체적으로 기술하세요. 예: '매출 데이터를 분석하여 전년 대비 15% 성장 원인을 파악하고...'"
     [name |-> <<"#su", "#ri", "#neu-ng", "#ryeo-g">>,
        text |-> <<"#de", "#i", "#teo", " ",
       "#bu-n", "#seo-g", ",", " ", "#to-ng", "#gye", " ", "#hwa-l", "#yo-ng", ",", " ", "#su",
       "#chi", " ", "#gi", "#ba-n", " ", "#ui", "#sa", "#gyeo-l", "#jeo-ng", " ", "#gyeo-ng",
       "#heo-m", "#eu-l", " ", "#gu", "#che", "#jeo-g", "#eu", "#ro", " ", "#gi", "#su-l",
       "#ha", "#se", "#yo", ".", " ", "#ye", ":", " ", "'", "#mae", "#chu-l", " ", "#de", "#i",
       "#teo", "#reu-l", " ", "#bu-n", "#seo-g", "#ha", "#yeo", " ", "#jeo-n", "#nyeo-n", " ",
       "#dae", "#bi", " ", "1", "5", "%", " ", "#seo-ng", "#ja-ng", " ", "#wo-n", "#i-n",
       "#eu-l", " ", "#pa", "#a-g", "#ha", "#go", ".", ".", ".", "'">>],
     \* "문제해결능력": "어려운 상황을 극복한 경험을 상황-문제-해결-결과(STAR) 구조로 작성하세요. 예: '프로젝트 중 예상치 못한 기술적 문제가 발생했을 때, 대안을 분석하고...'"
     [name |-> <<"#mu-n", "#je", "#hae", "#gyeo-l", "#neu-ng",
       "#ryeo-g">>,
        text |-> <<"#eo", "#ryeo", "#u-n", " ", "#sa-ng", "#hwa-ng",
       "#eu-l", " ", "#geu-g", "#bo-g", "#ha-n", " ", "#gyeo-ng", "#heo-m", "#eu-l", " ",
       "#sa-ng", "#hwa-ng", "-", "#mu-n", "#je", "-", "#hae", "#gyeo-l", "-", "#gyeo-l",
       "#gwa", "(", "S", "T", "A", "R", ")", " ", "#gu", "#jo", "#ro", " ", "#ja-g", "#seo-ng",
       "#ha", "#se", "#yo", ".", " ", "#ye", ":", " ", "'", "#peu", "#ro", "#je-g", "#teu",
       " ", "#ju-ng", " ", "#ye", "#sa-ng", "#chi", " ", "#mo-s", "#ha-n", " ", "#gi", "#su-l",
       "#jeo-g", " ", "#mu-n", "#je", "#ga", " ", "#ba-l", "#sae-ng", "#hae-ss", "#eu-l", " ",
       "#ttae", ",", " ", "#dae", "#a-n", "#eu-l", " ", "#bu-n", "#seo-g", "#ha", "#go", ".",
       ".", ".", "'">>],
     \* "자기개발능력": "자격증 취득, 교육 이수, 자기주도 학습 경험을 구체적으로 기술하세요. 예: '업무 역량 향상을 위해 Python 온라인 강좌를 수료하고, 실무에 적용하여...'"
     [name |-> <<"#ja", "#gi", "#gae", "#ba-l", "#neu-ng", "#ryeo-g">>,
        text |-> <<"#ja",
       "#gyeo-g", "#jeu-ng", " ", "#chwi", "#deu-g", ",", " ", "#gyo", "#yu-g", " ", "#i",
       "#su", ",", " ", "#ja", "#gi", "#ju", "#do", " ", "#ha-g", "#seu-b", " ", "#gyeo-ng",
       "#heo-m", "#eu-l", " ", "#gu", "#che", "#jeo-g", "#eu", "#ro", " ", "#gi", "#su-l",
       "#ha", "#se", "#yo", ".", " ", "#ye", ":", " ", "'", "#eo-b", "#mu", " ", "#yeo-g",
       "#rya-ng", " ", "#hya-ng", "#sa-ng", "#eu-l", " ", "#wi", "#hae", " ", "P", "y", "t",
       "h", "o", "n", " ", "#o-n", "#ra", "#i-n", " ", "#ga-ng", "#jwa", "#reu-l", " ", "#su",
       "#ryo", "#ha", "#go", ",", " ", "#si-l", "#mu", "#e", " ", "#jeo-g", "#yo-ng", "#ha",
       "#yeo", ".", ".", ".", "'">>],
     \* "자원관리능력": "예산 관리, 일정 조율, 인력 배분 등 자원을 효율적으로 관리한 경험을 추가하세요. 예: '한정된 예산 내에서 우선순위를 설정하여 핵심 과제에 집중한 결과...'"
     [name |-> <<"#ja", "#wo-n", "#gwa-n", "#ri", "#neu-ng", "#ryeo-g">>,
        text |-> <<"#ye",
       "#sa-n", " ", "#gwa-n", "#ri", ",", " ", "#i-l", "#jeo-ng", " ", "#jo", "#yu-l", ",",
       " ", "#i-n", "#ryeo-g", " ", "#bae", "#bu-n", " ", "#deu-ng", " ", "#ja", "#wo-n",
       "#eu-l", " ", "#hyo", "#yu-l", "#jeo-g", "#eu", "#ro", " ", "#gwa-n", "#ri", "#ha-n",
       " ", "#gyeo-ng", "#heo-m", "#eu-l", " ", "#chu", "#ga", "#ha", "#se", "#yo", ".", " ",
       "#ye", ":", " ", "'", "#ha-n", "#jeo-ng", "#doe-n", " ", "#ye", "#sa-n", " ", "#nae",
       "#e", "#seo", " ", "#u", "#seo-n", "#su-n", "#wi", "#reu-l", " ", "#seo-l", "#jeo-ng",
       "#ha", "#yeo", " ", "#hae-g", "#si-m", " ", "#gwa", "#je", "#e", " ", "#ji-b", "#ju-ng",
       "#ha-n", " ", "#gyeo-l", "#gwa", ".", ".", ".", "'">>],
     \* "대인관계능력": "팀워크, 갈등 해결, 협력 경험을 구체적으로 작성하세요. 예: '팀원 간 의견 충돌 시 각자의 입장을 경청하고 중재하여 합의점을 도출했습니다...'"
     [name |-> <<"#dae", "#i-n", "#gwa-n", "#gye", "#neu-ng",
       "#ryeo-g">>,
        text |-> <<"#ti-m", "#wo", "#keu", ",", " ", "#ga-l", "#deu-ng",
       " ", "#hae", "#gyeo-l", ",", " ", "#hyeo-b", "#ryeo-g", " ", "#gyeo-ng", "#heo-m",
       "#eu-l", " ", "#gu", "#che", "#jeo-g", "#eu", "#ro", " ", "#ja-g", "#seo-ng", "#ha",
       "#se", "#yo", ".", " ", "#ye", ":", " ", "'", "#ti-m", "#wo-n", " ", "#ga-n", " ",
       "#ui", "#gyeo-n", " ", "#chu-ng", "#do-l", " ", "#si", " ", "#ga-g", "#ja", "#ui", " ",
       "#i-b", "#ja-ng", "#eu-l", " ", "#gyeo-ng", "#cheo-ng", "#ha", "#go", " ", "#ju-ng",
       "#jae", "#ha", "#yeo", " ", "#ha-b", "#ui", "#jeo-m", "#eu-l", " ", "#do", "#chu-l",
       "#hae-ss", "#seu-b", "#ni", "#da", ".", ".", ".", "'">>],
     \* "정보능력": "정보 수집, 데이터 활용, IT 시스템 활용 경험을 추가하세요. 예: '업무 효율화를 위해 엑셀 매크로를 활용하여 반복 작업을 자동화하고...'"
     [name |-> <<"#jeo-ng", "#bo", "#neu-ng", "#ryeo-g">>,
        text |-> <<"#jeo-ng", "#bo", " ",
       "#su", "#ji-b", ",", " ", "#de", "#i", "#teo", " ", "#hwa-l", "#yo-ng", ",", " ", "I",
       "T", " ", "#si", "#seu", "#te-m", " ", "#hwa-l", "#yo-ng", " ", "#gyeo-ng", "#heo-m",
       "#eu-l", " ", "#chu", "#ga", "#ha", "#se", "#yo", ".", " ", "#ye", ":", " ", "'",
       "#eo-b", "#mu", " ", "#hyo", "#yu-l", "#hwa", "#reu-l", " ", "#wi", "#hae", " ", "#e-g",
       "#se-l", " ", "#mae", "#keu", "#ro", "#reu-l", " ", "#hwa-l", "#yo-ng", "#ha", "#yeo",
       " ", "#ba-n", "#bo-g", " ", "#ja-g", "#eo-b", "#eu-l", " ", "#ja", "#do-ng", "#hwa",
       "#ha", "#go", ".", ".", ".", "'">>],
     \* "기술능력": "전문 기술, 도구 활용, 시스템 운영 경험을 구체적으로 기술하세요. 예: 'AutoCAD를 활용한 도면 작성, Python 데이터 분석 등 실무 기술을 적용하여...'"
     [name |-> <<"#gi", "#su-l", "#neu-ng", "#ryeo-g">>,
        text |-> <<"#jeo-n", "#mu-n", " ",
       "#gi", "#su-l", ",", " ", "#do", "#gu", " ", "#hwa-l", "#yo-ng", ",", " ", "#si",
       "#seu", "#te-m", " ", "#u-n", "#yeo-ng", " ", "#gyeo-ng", "#heo-m", "#eu-l", " ", "#gu",
       "#che", "#jeo-g", "#eu", "#ro", " ", "#gi", "#su-l", "#ha", "#se", "#yo", ".", " ",
       "#ye", ":", " ", "'", "A", "u", "t", "o", "C", "A", "D", "#reu-l", " ", "#hwa-l",
       "#yo-ng", "#ha-n", " ", "#do", "#myeo-n", " ", "#ja-g", "#seo-ng", ",", " ", "P", "y",
       "t", "h", "o", "n", " ", "#de", "#i", "#teo", " ", "#bu-n", "#seo-g", " ", "#deu-ng",
       " ", "#si-l", "#mu", " ", "#gi", "#su-l", "#eu-l", " ", "#jeo-g", "#yo-ng", "#ha",
       "#yeo", ".", ".", ".", "'">>],
     \* "조직이해능력": "지원 기관의 미션, 비전, 최근 사업에 대한 이해를 보여주세요. 예: '기관의 디지털 전환 전략에 공감하며, 제 IT 역량을 활용하여 기여하고 싶습니다...'"
     [name |-> <<"#jo", "#ji-g", "#i", "#hae", "#neu-ng", "#ryeo-g">>,
        text |-> <<"#ji",
       "#wo-n", " ", "#gi", "#gwa-n", "#ui", " ", "#mi", "#syeo-n", ",", " ", "#bi", "#jeo-n",
       ",", " ", "#choe", "#geu-n", " ", "#sa", "#eo-b", "#e", " ", "#dae", "#ha-n", " ", "#i",
       "#hae", "#reu-l", " ", "#bo", "#yeo", "#ju", "#se", "#yo", ".", " ", "#ye", ":", " ",
       "'", "#gi", "#gwa-n", "#ui", " ", "#di", "#ji", "#teo-l", " ", "#jeo-n", "#hwa-n", " ",
       "#jeo-n", "#rya-g", "#e", " ", "#go-ng", "#ga-m", "#ha", "#myeo", ",", " ", "#je", " ",
       "I", "T", " ", "#yeo-g", "#rya-ng", "#eu-l", " ", "#hwa-l", "#yo-ng", "#ha", "#yeo",
       " ", "#gi", "#yeo", "#ha", "#go", " ", "#si-p", "#seu-b", "#ni", "#da", ".", ".", ".",
       "'">>],
     \* "직업윤리": "책임감, 성실성, 청렴성을 보여주는 경험을 추가하세요. 예: '맡은 업무에 대한 책임감으로 야근도 마다하지 않고 기한 내 완수했습니다...'"
     [name |-> <<"#ji-g", "#eo-b", "#yu-n", "#ri">>,
        text |-> <<"#chae-g", "#i-m", "#ga-m",
       ",", " ", "#seo-ng", "#si-l", "#seo-ng", ",", " ", "#cheo-ng", "#ryeo-m", "#seo-ng",
       "#eu-l", " ", "#bo", "#yeo", "#ju", "#neu-n", " ", "#gyeo-ng", "#heo-m", "#eu-l", " ",
       "#chu", "#ga", "#ha", "#se", "#yo", ".", " ", "#ye", ":", " ", "'", "#ma-t", "#eu-n",
       " ", "#eo-b", "#mu", "#e", " ", "#dae", "#ha-n", " ", "#chae-g", "#i-m", "#ga-m", "#eu",
       "#ro", " ", "#ya", "#geu-n", "#do", " ", "#ma", "#da", "#ha", "#ji", " ", "#a-nh",
       "#go", " ", "#gi", "#ha-n", " ", "#nae", " ", "#wa-n", "#su", "#hae-ss", "#seu-b",
       "#ni", "#da", ".", ".", ".", "'">>] >>

\* importance == "필수"
Required == <<"#pi-l", "#su">>

\* the default importance, "권장"
Recommended == <<"#gwo-n", "#ja-ng">>

(***************************************************************************)
(* Compliance auditor: check_warnings and its checks                       *)
(***************************************************************************)
\* WarningItem(type=..., severity=..., message=..., detected_text=..., suggestion=...)
WarningItem(type, severity, message, detected_text, suggestion) ==
  [type |-> type, severity |-> severity, message |-> message,
   detected_text |-> detected_text, suggestion |-> suggestion]

\* the message prefix "⚠️ 블라인드 채용 위반: "
BlindPrefix == <<"#warn", "#vs16", " ", "#beu-l", "#ra", "#i-n", "#deu", " ", "#chae", "#yo-ng", " ", "#wi", "#ba-n", ":", " ">>

\* the message of the sentence-level family-context warning
FamilyContextMessage == BlindPrefix \o <<"#ga", "#jo-g", " ", "#gwa-n", "#gye", "/", "#bae", "#gyeo-ng", "#i", " ", "#eo-n", "#geu-b", "#doe", "#eo", " ", "#i-ss", "#seu-b", "#ni", "#da">>

\* the message of the direct family-circumstances warning
DirectFamilyMessage == BlindPrefix \o <<"#ga", "#jeo-ng", "#hwa-n", "#gyeo-ng", "/", "#ji-b", "#a-n", " ", "#hyeo-ng", "#pyeo-n", "#e", " ", "#dae", "#ha-n", " ", "#eo-n", "#geu-b", "#i", " ", "#i-ss", "#seu-b", "#ni", "#da">>

\* the message of the school-name warning
SchoolMessage == BlindPrefix \o <<"#ha-g", "#gyo", "#myeo-ng", "#i", " ", "#po", "#ha-m", "#doe", "#eo", " ", "#i-ss", "#seu-b", "#ni", "#da">>

\* the message of the region-of-origin warning
RegionMessage == BlindPrefix \o <<"#chu-l", "#si-n", " ", "#ji", "#yeo-g", "#i", " ", "#eo-n", "#geu-b", "#doe", "#eo", " ", "#i-ss", "#seu-b", "#ni", "#da">>

\* the least element of a non-empty set of integers
Least(S) == CHOOSE i \in S : \A j \in S : i <= j

\* is_exception: some exception pattern is found in the sentence
IsException(sentence) ==
  \E k \in 1..Len(_EXCEPTION_PATTERNS) : Search(_EXCEPTION_PATTERNS[k], sentence)

\* found_family_word: the first long keyword contained in the sentence, else
\* the word of the first short-keyword pattern found in it, else <<>> (None)
FoundFamilyWord(sentence) ==
  LET long == {k \in 1..Len(family_keywords_long) :
                 Contains(family_keywords_long[k], sentence)}
      short == {k \in 1..Len(_FAMILY_KEYWORDS_SHORT) :
                  Search(_FAMILY_KEYWORDS_SHORT[k].p, sentence)}
  IN  IF long # {} THEN family_keywords_long[Least(long)]
      ELSE IF short # {} THEN _FAMILY_KEYWORDS_SHORT[Least(short)].word
      ELSE <<>>

\* some personal-context pattern is found in the sentence
HasPersonalContext(sentence) ==
  \E k \in 1..Len(_PERSONAL_CONTEXT_PATTERNS) :
     Search(_PERSONAL_CONTEXT_PATTERNS[k], sentence)

\* FamilySentenceHit without the exception test (a faulty variant)
FamilySentenceHit_NoException(sentence) ==
  /\ ~(Len(Strip(sentence)) < 10)
  /\ FoundFamilyWord(sentence) # <<>>
  /\ HasPersonalContext(sentence)

\* the loop body of _check_family_context reaches warnings.append for the sentence
FamilySentenceHit(sentence) ==
  /\ ~(Len(Strip(sentence)) < 10)
  /\ ~IsException(sentence)
  /\ FoundFamilyWord(sentence) # <<>>
  /\ HasPersonalContext(sentence)

\* FamilyDetectedText without the ellipsis (a faulty variant)
FamilyDetectedText_NoEllipsis(sentence) == Slice(Strip(sentence), 0, 50)

\* sentence.strip()[:50] + ("..." if len(sentence.strip()) > 50 else "")
FamilyDetectedText(sentence) ==
  Slice(Strip(sentence), 0, 50)
    \o (IF Len(Strip(sentence)) > 50 THEN <<".", ".", ".">> ELSE <<>>)

\* the loop over _DIRECT_FAMILY_PATTERNS: the first pattern found, then break
DirectFamilyWarnings(answer) ==
  LET hit == {k \in 1..Len(_DIRECT_FAMILY_PATTERNS) :
                Search(_DIRECT_FAMILY_PATTERNS[k], answer)}
  IN  IF hit = {} THEN <<>>
      ELSE << WarningItem("blind_violation", "high", DirectFamilyMessage,
                          Group(_DIRECT_FAMILY_PATTERNS[Least(hit)], answer),
                          <<"#ga", "#jeo-ng", "#hwa-n", "#gyeo-ng", " ", "#gwa-n", "#ryeo-n", " ", "#eo-n", "#geu-b", "#eu-l", " ", "#sa-g", "#je", "#ha", "#se", "#yo", ".">>) >>

\* _check_family_context(answer): the sentence loop returns at the first
\* sentence that warns; the direct-pattern loop runs after the sentence loop
_check_family_context(answer) ==
  LET sentences == Split(_SENTENCE_SPLIT_PATTERN, answer)
      hit == {i \in 1..Len(sentences) : FamilySentenceHit(sentences[i])}
  IN  IF hit # {}
      THEN << WarningItem("blind_violation", "high", FamilyContextMessage,
                          FamilyDetectedText(sentences[Least(hit)]),
                          <<"#ga", "#jo-g", "#ui", " ", "#ji-g", "#eo-b", ",", " ", "#yeo-ng", "#hya-ng", ",", " ", "#bae", "#gyeo-ng", " ", "#deu-ng", "#e", " ", "#dae", "#ha-n", " ", "#eo-n", "#geu-b", "#eu-l", " ", "#sa-g", "#je", "#ha", "#geo", "#na", " ", "#da", "#reu-n", " ", "#pyo", "#hyeo-n", "#eu", "#ro", " ", "#dae", "#che", "#ha", "#se", "#yo", ".">>) >>
      ELSE DirectFamilyWarnings(answer)

\* the rules of a family (school, region) found in the answer
RulesFound(patterns, answer) ==
  {k \in 1..Len(patterns) : Search(patterns[k], answer)}

\* the texts findall gives for school rule k: group 1 for the rule that has a
\* group (the third), the whole match for the others
SchoolMatches(k, answer) ==
  LET spans == Spans(_SCHOOL_PATTERNS[k], answer, 0)
      text(m) == IF k = 3 THEN SubSeq(answer, m[1] + 1, m[2] - 1)
                 ELSE SubSeq(answer, m[1] + 1, m[2])
  IN  {text(spans[i]) : i \in 1..Len(spans)}

\* the school-name warning of rule k
SchoolWarning(k, answer) ==
  WarningItem("blind_violation", "high", SchoolMessage,
              [joined |-> SchoolMatches(k, answer)],
              <<"#ha-g", "#gyo", "#myeo-ng", "#eu-l", " ", "'", "#dae", "#ha-g", "#gyo", "#e", "#seo", "'", ",", " ", "'", "#ha-g", "#bu", " ", "#gwa", "#jeo-ng", "#e", "#seo", "'", " ", "#deu-ng", "#eu", "#ro", " ", "#su", "#jeo-ng", "#ha", "#se", "#yo", ".">>)

\* SchoolWarnings without the break: a warning for every rule that matches
\* (a faulty variant)
SchoolWarnings_NoBreak(answer) ==
  LET hit == RulesFound(_SCHOOL_PATTERNS, answer)
      nth(i) == CHOOSE k \in hit : Cardinality({j \in hit : j < k}) = i - 1
  IN  [i \in 1..Cardinality(hit) |-> SchoolWarning(nth(i), answer)]

\* the school loop of _check_blind_violations: findall of the first rule that
\* matches, then break; detected_text joins set(matches), whose order Python
\* leaves open, so the model keeps the set of matched texts
SchoolWarnings(answer) ==
  LET hit == RulesFound(_SCHOOL_PATTERNS, answer)
  IN  IF hit = {} THEN <<>> ELSE << SchoolWarning(Least(hit), answer) >>

\* the region loop of _check_blind_violations: search, first rule, then break
RegionWarnings(answer) ==
  LET hit == RulesFound(_REGION_PATTERNS, answer)
  IN  IF hit = {} THEN <<>>
      ELSE << WarningItem("blind_violation", "high", RegionMessage,
                          Group(_REGION_PATTERNS[Least(hit)], answer),
                          <<"#chu-l", "#si-n", " ", "#ji", "#yeo-g", " ", "#eo-n", "#geu-b", "#eu-l", " ", "#sa-g", "#je", "#ha", "#se", "#yo", ".">>) >>

\* _check_blind_violations(answer): school, family context, region
_check_blind_violations(answer) ==
  SchoolWarnings(answer) \o _check_family_context(answer) \o RegionWarnings(answer)

\* _check_abstract_expressions without the limit of three (a faulty variant)
_check_abstract_expressions_NoCap(answer) ==
  LET found_abstracts ==
        SelectSeq(abstract_patterns, LAMBDA p : Contains(p.phrase, answer))
      first3 == found_abstracts
  IN  [k \in 1..Len(first3) |->
         WarningItem("abstract_expression", "medium",
                     <<"#thought", " ", "#chu", "#sa-ng", "#jeo-g", " ", "#pyo", "#hyeo-n", ":", " ">> \o <<"\"">> \o first3[k].phrase \o <<"\"">>,
                     first3[k].phrase, first3[k].suggestion)]

\* _check_abstract_expressions(answer): the phrases present, in list order,
\* the first three of them
_check_abstract_expressions(answer) ==
  LET found_abstracts ==
        SelectSeq(abstract_patterns, LAMBDA p : Contains(p.phrase, answer))
      first3 == SubSeq(found_abstracts, 1,
                       IF Len(found_abstracts) < 3 THEN Len(found_abstracts) ELSE 3)
  IN  [k \in 1..Len(first3) |->
         WarningItem("abstract_expression", "medium",
                     <<"#thought", " ", "#chu", "#sa-ng", "#jeo-g", " ", "#pyo", "#hyeo-n", ":", " ">> \o <<"\"">> \o first3[k].phrase \o <<"\"">>,
                     first3[k].phrase, first3[k].suggestion)]

\* _check_missing_results that looks for numbers only (a faulty variant)
_check_missing_results_NumbersOnly(answer) ==
  LET has_numbers == Search(_NUMBER_PATTERN, answer)
      has_result == \E k \in 1..Len(_RESULT_PATTERNS) : Search(_RESULT_PATTERNS[k], answer)
  IN  IF ~has_numbers
      THEN << WarningItem("missing_result", "medium",
                          <<"#chart", " ", "#gu", "#che", "#jeo-g", "#i-n", " ", "#seo-ng", "#gwa", "/", "#su", "#chi", "#ga", " ", "#bu", "#jo-g", "#ha-b", "#ni", "#da">>, <<>>,
                          <<"#gyeo-ng", "#heo-m", "#ui", " ", "#gyeo-l", "#gwa", "#reu-l", " ", "#su", "#chi", "#ro", " ", "#pyo", "#hyeo-n", "#hae", " ", "#bo", "#se", "#yo", ".", " ", "#ye", ":", " ", "'", "#jeo-n", "#nyeo-n", " ", "#dae", "#bi", " ", "2", "0", "%", " ", "#hya-ng", "#sa-ng", "'", ",", " ", "'", "3", "#gae", "#wo-l", " ", "#ma-n", "#e", " ", "#wa-n", "#ryo", "'">>) >>
      ELSE <<>>

\* _check_missing_results(answer)
_check_missing_results(answer) ==
  LET has_numbers == Search(_NUMBER_PATTERN, answer)
      has_result == \E k \in 1..Len(_RESULT_PATTERNS) : Search(_RESULT_PATTERNS[k], answer)
  IN  IF ~has_numbers /\ ~has_result
      THEN << WarningItem("missing_result", "medium",
                          <<"#chart", " ", "#gu", "#che", "#jeo-g", "#i-n", " ", "#seo-ng", "#gwa", "/", "#su", "#chi", "#ga", " ", "#bu", "#jo-g", "#ha-b", "#ni", "#da">>, <<>>,
                          <<"#gyeo-ng", "#heo-m", "#ui", " ", "#gyeo-l", "#gwa", "#reu-l", " ", "#su", "#chi", "#ro", " ", "#pyo", "#hyeo-n", "#hae", " ", "#bo", "#se", "#yo", ".", " ", "#ye", ":", " ", "'", "#jeo-n", "#nyeo-n", " ", "#dae", "#bi", " ", "2", "0", "%", " ", "#hya-ng", "#sa-ng", "'", ",", " ", "'", "3", "#gae", "#wo-l", " ", "#ma-n", "#e", " ", "#wa-n", "#ryo", "'">>) >>
      ELSE <<>>

\* _check_organization_name that compares the code as it was given (a
\* faulty variant)
_check_organization_name_NoUpper(answer, organization) ==
  LET hit == {k \in 1..Len(_ORG_NAME_PATTERNS) :
                /\ _ORG_NAME_PATTERNS[k].code # organization
                /\ Search(_ORG_NAME_PATTERNS[k].p, Lower(answer))}
      m == MatchFrom(_ORG_NAME_PATTERNS[Least(hit)].p, Lower(answer), 0)
      group == SubSeq(answer, m[1] + 1, m[2])
  IN  IF hit = {} THEN <<>>
      ELSE << WarningItem("wrong_organization", "high",
                          <<"#siren", " ", "#da", "#reu-n", " ", "#gi", "#gwa-n", "#myeo-ng", " ", "#ba-l", "#gyeo-n", ":", " ">> \o <<"\"">> \o group \o <<"\"">>,
                          group,
                          <<"#ji", "#wo-n", " ", "#gi", "#gwa-n", "#myeo-ng", "#i", " ", "#ma-j", "#neu-n", "#ji", " ", "#hwa-g", "#i-n", "#ha", "#se", "#yo", ".", " ", "#bo-g", "#sa", "-", "#bu-t", "#yeo", "#neo-h", "#gi", " ", "#o", "#ryu", "#i-l", " ", "#su", " ", "#i-ss", "#seu-b", "#ni", "#da", ".">>) >>

\* _check_organization_name(answer, organization): the first table entry of
\* another code whose pattern is found (IGNORECASE), then break
_check_organization_name(answer, organization) ==
  LET hit == {k \in 1..Len(_ORG_NAME_PATTERNS) :
                /\ _ORG_NAME_PATTERNS[k].code # Upper(organization)
                /\ Search(_ORG_NAME_PATTERNS[k].p, Lower(answer))}
      m == MatchFrom(_ORG_NAME_PATTERNS[Least(hit)].p, Lower(answer), 0)
      group == SubSeq(answer, m[1] + 1, m[2])
  IN  IF hit = {} THEN <<>>
      ELSE << WarningItem("wrong_organization", "high",
                          <<"#siren", " ", "#da", "#reu-n", " ", "#gi", "#gwa-n", "#myeo-ng", " ", "#ba-l", "#gyeo-n", ":", " ">> \o <<"\"">> \o group \o <<"\"">>,
                          group,
                          <<"#ji", "#wo-n", " ", "#gi", "#gwa-n", "#myeo-ng", "#i", " ", "#ma-j", "#neu-n", "#ji", " ", "#hwa-g", "#i-n", "#ha", "#se", "#yo", ".", " ", "#bo-g", "#sa", "-", "#bu-t", "#yeo", "#neo-h", "#gi", " ", "#o", "#ryu", "#i-l", " ", "#su", " ", "#i-ss", "#seu-b", "#ni", "#da", ".">>) >>

\* check_warnings with the organization check first (a faulty variant)
check_warnings_OrgFirst(answer, organization) ==
  _check_organization_name(answer, organization)
    \o _check_blind_violations(answer)
    \o _check_abstract_expressions(answer)
    \o _check_missing_results(answer)

\* check_warnings(answer, organization): the four checks, concatenated
check_warnings(answer, organization) ==
  _check_blind_violations(answer)
    \o _check_abstract_expressions(answer)
    \o _check_missing_results(answer)
    \o _check_organization_name(answer, organization)

(***************************************************************************)
(* Value / competency scorer                                               *)
(***************************************************************************)
\* KeywordsOf with no keyword for a name that the table lacks (a faulty
\* variant)
KeywordsOf_NoDefault(table, name, default) ==
  LET hit == {k \in 1..Len(table) : table[k].name = name}
  IN  IF hit = {} THEN <<>> ELSE table[Least(hit)].keywords

\* dict.get(name, default) on a table of [name, keywords] entries
KeywordsOf(table, name, default) ==
  LET hit == {k \in 1..Len(table) : table[k].name = name}
  IN  IF hit = {} THEN default ELSE table[Least(hit)].keywords

\* EvidenceSentence without the length test (a faulty variant)
EvidenceSentence_AnyLength(keyword, sentences) ==
  LET hit == {i \in 1..Len(sentences) : Contains(keyword, sentences[i])}
  IN  IF hit = {} THEN 0 ELSE Least(hit)

\* the inner sentence loop: the first sentence that contains the keyword and
\* is longer than 10 characters (0 when there is none)
EvidenceSentence(keyword, sentences) ==
  LET hit == {i \in 1..Len(sentences) :
                Contains(keyword, sentences[i]) /\ Len(sentences[i]) > 10}
  IN  IF hit = {} THEN 0 ELSE Least(hit)

\* evidence_parts after the keyword loop has handled the found keywords:
\* the sentence is appended stripped, unless the sentence as split is
\* already in the list
RECURSIVE EvidenceParts(_, _, _)
EvidenceParts(found_keywords, sentences, evidence_parts) ==
  IF found_keywords = <<>> THEN evidence_parts
  ELSE LET i == EvidenceSentence(Head(found_keywords), sentences)
           next == IF i = 0 THEN evidence_parts
                   ELSE IF \E k \in 1..Len(evidence_parts) : evidence_parts[k] = sentences[i]
                        THEN evidence_parts
                        ELSE Append(evidence_parts, Strip(sentences[i]))
       IN  EvidenceParts(Tail(found_keywords), sentences, next)

\* StepScore with every threshold one too high (a faulty variant)
StepScore_Shifted(n) ==
  IF n >= 4 THEN 9 ELSE IF n >= 3 THEN 7 ELSE IF n >= 2 THEN 5 ELSE 3

\* the 3 / 5 / 7 / 9 step of the number of found keywords
StepScore(n) ==
  IF n >= 3 THEN 9 ELSE IF n >= 2 THEN 7 ELSE IF n >= 1 THEN 5 ELSE 3

\* the direct-mention bonus of analyze_core_values
NameBonus(score, name, answer) ==
  IF Contains(name, answer) THEN (IF score + 1 < 10 THEN score + 1 ELSE 10) ELSE score

\* EvidenceText without the cut at 100 characters (a faulty variant)
EvidenceText_NoCut(part) ==
  part \o (IF Len(part) > 100 THEN <<".", ".", ".">> ELSE <<>>)

\* evidence_parts[0][:100] + ("..." if len(evidence_parts[0]) > 100 else "")
EvidenceText(part) ==
  Slice(part, 0, 100) \o (IF Len(part) > 100 THEN <<".", ".", ".">> ELSE <<>>)

\* the keywords of analyze_core_values found in the lower-cased answer
ValueFoundKeywords(keywords, answer) ==
  LET answer_lower == Lower(answer)
  IN  SelectSeq(keywords, LAMBDA keyword : Contains(Lower(keyword), answer_lower))

\* one iteration of the loop of analyze_core_values: the CoreValueScore of a value
CoreValueScore(answer, value) ==
  LET value_normalized == Strip(value)
      keywords == KeywordsOf(value_keywords, value_normalized, <<value_normalized>>)
      found_keywords == ValueFoundKeywords(keywords, answer)
      evidence_parts ==
        EvidenceParts(found_keywords, Split(_SENTENCE_SPLIT_PATTERN, answer), <<>>)
      score == NameBonus(StepScore(Len(found_keywords)), value_normalized, answer)
      found == Len(found_keywords) > 0
  IN  [value |-> value_normalized,
       score |-> score,
       found |-> found,
       evidence |-> IF found /\ evidence_parts # <<>>
                    THEN EvidenceText(evidence_parts[1]) ELSE <<>>,
       suggestion |-> IF ~(found /\ evidence_parts # <<>>) /\ ~found
                      THEN <<"'">> \o value_normalized \o <<"'">>
                             \o <<" ", "#gwa-n", "#ryeo-n", " ", "#gyeo-ng", "#heo-m", "#i", "#na", " ", "#ga", "#chi", "#gwa-n", "#eu-l", " ", "#chu", "#ga", "#hae", " ", "#bo", "#se", "#yo", ".">>
                      ELSE <<>>]

\* analyze_core_values(answer, core_values)
analyze_core_values(answer, core_values) ==
  [k \in 1..Len(core_values) |-> CoreValueScore(answer, core_values[k])]

\* the keywords of analyze_ncs_competencies found in the answer
NcsFoundKeywords(keywords, answer) ==
  LET answer_lower == Lower(answer)
  IN  SelectSeq(keywords, LAMBDA keyword :
         Contains(Lower(keyword), answer_lower) \/ Contains(keyword, answer))

\* NcsScore without the override for a required competency (a faulty variant)
NcsScore_NoOverride(importance, n) == StepScore(n)

\* base_score of analyze_ncs_competencies from the number of found keywords
NcsScore(importance, n) ==
  IF importance = Required /\ n = 0 THEN 2 ELSE StepScore(n)

\* NcsBaseScore with the direct-mention bonus of analyze_core_values added
\* (a faulty variant)
NcsBaseScore_NameBonus(answer, ncs) ==
  NameBonus(NcsScore(ncs.importance,
                     Len(NcsFoundKeywords(KeywordsOf(ncs_keywords, ncs.name, <<ncs.name>>),
                                          answer))),
            ncs.name, answer)

\* base_score of analyze_ncs_competencies for one competency
NcsBaseScore(answer, ncs) ==
  NcsScore(ncs.importance,
           Len(NcsFoundKeywords(KeywordsOf(ncs_keywords, ncs.name, <<ncs.name>>), answer)))

\* ncs_suggestions.get(ncs_name, f"'{ncs_name}' 관련 구체적인 경험을 추가하세요.")
NcsSuggestion(ncs_name) ==
  LET hit == {k \in 1..Len(ncs_suggestions) : ncs_suggestions[k].name = ncs_name}
  IN  IF hit = {}
      THEN <<"'">> \o ncs_name \o <<"'">> \o <<" ", "#gwa-n", "#ryeo-n", " ", "#gu", "#che", "#jeo-g", "#i-n", " ", "#gyeo-ng", "#heo-m", "#eu-l", " ", "#chu", "#ga", "#ha", "#se", "#yo", ".">>
      ELSE ncs_suggestions[Least(hit)].text

\* one iteration of the loop of analyze_ncs_competencies
NCSCompetencyScore(answer, ncs) ==
  LET keywords == KeywordsOf(ncs_keywords, ncs.name, <<ncs.name>>)
      found_keywords == NcsFoundKeywords(keywords, answer)
      evidence_parts ==
        EvidenceParts(found_keywords, Split(_SENTENCE_SPLIT_PATTERN, answer), <<>>)
      found == Len(found_keywords) > 0
  IN  [code |-> ncs.code,
       name |-> ncs.name,
       importance |-> ncs.importance,
       score |-> NcsBaseScore(answer, ncs),
       found |-> found,
       evidence |-> IF found /\ evidence_parts # <<>>
                    THEN EvidenceText(evidence_parts[1]) ELSE <<>>,
       suggestion |-> IF ~(found /\ evidence_parts # <<>>) /\ ~found
                      THEN (IF ncs.importance = Required
                            THEN <<"[", "#pi-l", "#su", " ", "#yeo-g", "#rya-ng", "]", " ">> \o NcsSuggestion(ncs.name)
                            ELSE NcsSuggestion(ncs.name))
                      ELSE <<>>]

\* analyze_ncs_competencies(answer, position), given the ncs_competencies of
\* the position's data
analyze_ncs_competencies(answer, ncs_competencies) ==
  [k \in 1..Len(ncs_competencies) |-> NCSCompetencyScore(answer, ncs_competencies[k])]

(***************************************************************************)
(* Inputs                                                                  *)
(***************************************************************************)
MaxSentences == 2

MaxValues == 2

MaxCompetencies == 2

\* all sequences over S of length at most n
RECURSIVE SeqsUpTo(_, _)
SeqsUpTo(S, n) ==
  IF n = 0 THEN {<<>>}
  ELSE SeqsUpTo(S, n - 1) \cup
       {Append(q, x) : q \in {p \in SeqsUpTo(S, n - 1) : Len(p) = n - 1}, x \in S}

\* the sentences picked by the index set I, in the order of the pool
RECURSIVE Pick(_, _, _)
Pick(pool, I, k) ==
  IF k > Len(pool) THEN <<>>
  ELSE (IF k \in I THEN pool[k] ELSE <<>>) \o Pick(pool, I, k + 1)

\* the texts made of at most n sentences of the pool
Texts(pool, n) ==
  {Pick(pool, I, 1) : I \in {J \in SUBSET (1..Len(pool)) : Cardinality(J) <= n}}

\* sentences an answer is made of, for the auditor
WarnSentences ==
  << \* 아버지는 회사에서 일하시며 저를 키우셨습니다.
    <<"#a", "#beo", "#ji", "#neu-n", " ", "#hoe", "#sa", "#e", "#seo", " ", "#i-l", "#ha", "#si", "#myeo", " ", "#jeo", "#reu-l", " ", "#ki", "#u", "#syeo-ss", "#seu-b", "#ni", "#da", ".", " ">>,
    \* 아버지 같은 선배는 사업을 운영하시는 분입니다.
    <<"#a", "#beo", "#ji", " ", "#ga-t", "#eu-n", " ", "#seo-n", "#bae", "#neu-n", " ", "#sa", "#eo-b", "#eu-l", " ", "#u-n", "#yeo-ng", "#ha", "#si", "#neu-n", " ", "#bu-n", "#i-b", "#ni", "#da", ".", " ">>,
    \* 형 직업은 의사!
    <<"#hyeo-ng", " ", "#ji-g", "#eo-b", "#eu-n", " ", "#ui", "#sa", "!", " ">>,
    \* 어머니는 넉넉한 환경이 아니었음에도 ... (longer than 50 characters)
    <<"#eo", "#meo", "#ni", "#neu-n", " ", "#neo-g", "#neo-g", "#ha-n", " ", "#hwa-n", "#gyeo-ng", "#i", " ", "#a", "#ni", "#eo-ss", "#eu-m", "#e", "#do", " ", "#eo-n", "#je", "#na", " ", "#ba-lg", "#eu-n", " ", "#mo", "#seu-b", "#eu", "#ro", " ", "#i", "#u-s", "#eu-l", " ", "#do", "#u", "#myeo", " ", "#jeo", "#e", "#ge", " ", "#na", "#nu-m", "#ui", " ", "#gi", "#ppeu-m", "#eu-l", " ", "#a-l", "#ryeo", " ", "#ju", "#syeo-ss", "#seu-b", "#ni", "#da", ".", " ">>,
    \* 가정환경이 어려웠지만 부모님은 경제적 지원을 아끼지 않으셨습니다.
    <<"#ga", "#jeo-ng", "#hwa-n", "#gyeo-ng", "#i", " ", "#eo", "#ryeo", "#wo-ss", "#ji", "#ma-n", " ", "#bu", "#mo", "#ni-m", "#eu-n", " ", "#gyeo-ng", "#je", "#jeo-g", " ", "#ji", "#wo-n", "#eu-l", " ", "#a", "#kki", "#ji", " ", "#a-nh", "#eu", "#syeo-ss", "#seu-b", "#ni", "#da", ".", " ">>,
    \* 집안 형편 때문에 일찍 철이 들었습니다?
    <<"#ji-b", "#a-n", " ", "#hyeo-ng", "#pyeo-n", " ", "#ttae", "#mu-n", "#e", " ", "#i-l", "#jji-g", " ", "#cheo-l", "#i", " ", "#deu-l", "#eo-ss", "#seu-b", "#ni", "#da", "?">>,
    \* 서울대학교와 고려대학교에서 공부했습니다.
    <<"#seo", "#u-l", "#dae", "#ha-g", "#gyo", "#wa", " ", "#go", "#ryeo", "#dae", "#ha-g", "#gyo", "#e", "#seo", " ", "#go-ng", "#bu", "#hae-ss", "#seu-b", "#ni", "#da", ".", " ">>,
    \* 연세대를 다니며 다양한 경험을 쌓았고 열정적으로 노력하겠습니다.
    <<"#yeo-n", "#se", "#dae", "#reu-l", " ", "#da", "#ni", "#myeo", " ", "#da", "#ya-ng", "#ha-n", " ", "#gyeo-ng", "#heo-m", "#eu-l", " ", "#ssa-h", "#a-ss", "#go", " ", "#yeo-l", "#jeo-ng", "#jeo-g", "#eu", "#ro", " ", "#no", "#ryeo-g", "#ha", "#ge-ss", "#seu-b", "#ni", "#da", ".", " ">>,
    \* 저는 부산 출신이지만 서울에서 자라 성실하게 최선을 다하겠습니다.
    <<"#jeo", "#neu-n", " ", "#bu", "#sa-n", " ", "#chu-l", "#si-n", "#i", "#ji", "#ma-n", " ", "#seo", "#u-l", "#e", "#seo", " ", "#ja", "#ra", " ", "#seo-ng", "#si-l", "#ha", "#ge", " ", "#choe", "#seo-n", "#eu-l", " ", "#da", "#ha", "#ge-ss", "#seu-b", "#ni", "#da", ".", " ">>,
    \* 프로젝트에서 매출을 20% 향상시켰습니다.
    <<"#peu", "#ro", "#je-g", "#teu", "#e", "#seo", " ", "#mae", "#chu-l", "#eu-l", " ", "2", "0", "%", " ", "#hya-ng", "#sa-ng", "#si", "#kyeo-ss", "#seu-b", "#ni", "#da", ".", " ">>,
    \* 한전과 K-Water에 지원한 경험이 있습니다.
    <<"#ha-n", "#jeo-n", "#gwa", " ", "K", "-", "W", "a", "t", "e", "r", "#e", " ", "#ji", "#wo-n", "#ha-n", " ", "#gyeo-ng", "#heo-m", "#i", " ", "#i-ss", "#seu-b", "#ni", "#da", ".", " ">>,
    \* 저와 동생 모두 학벌이 좋지 않았습니다.
    <<"#jeo", "#wa", " ", "#do-ng", "#sae-ng", " ", "#mo", "#du", " ", "#ha-g", "#beo-l", "#i", " ", "#jo-h", "#ji", " ", "#a-nh", "#a-ss", "#seu-b", "#ni", "#da", ".">> >>

\* the answers given to the auditor
WarnAnswers == Texts(WarnSentences, MaxSentences)

\* further sentences for the checks of results and of organization names:
\* a number with a unit, a result expression, a number with a blank before
\* the unit, aliases of two organizations (the one later in the table
\* first), an alias of KWATER in upper case, and a word that holds "at"
CheckSentences ==
  << <<"3", "#myeo-ng", "#i", " ", "#cha-m", "#yeo", "#hae-ss", "#seu-b", "#ni", "#da", ".", " ">>,
     <<"#seo-ng", "#gwa", "#reu-l", " ", "#nae-ss", "#seu-b", "#ni", "#da", ".", " ">>,
     <<"#cho-ng", " ", "5", " ", "#myeo-ng", "#i-b", "#ni", "#da", ".", " ">>,
     <<"#ga", "#seu", "#go-ng", "#sa", "#wa", " ", "#ha-n", "#jeo-n", "#eu-l", " ", "#bi", "#gyo", "#hae-ss", "#seu-b", "#ni", "#da", ".", " ">>,
     <<"K", "-", "W", "A", "T", "E", "R", "#e", " ", "#ji", "#wo-n", "#ha-b", "#ni", "#da", ".", " ">>,
     <<"D", "a", "t", "a", "#reu-l", " ", "#da", "#ru", "#eo-ss", "#seu-b", "#ni", "#da", ".", " ">> >>

\* the organization codes of a request
Organizations == { <<"K", "E", "P", "C", "O">>, <<"k", "w", "a", "t", "e", "r">> }

\* sentences an answer is made of, for the scorer
ScoreSentences ==
  << \* 저는 고객 만족을 위해 노력했습니다.
    <<"#jeo", "#neu-n", " ", "#go", "#gae-g", " ", "#ma-n", "#jo-g", "#eu-l", " ", "#wi", "#hae", " ", "#no", "#ryeo-g", "#hae-ss", "#seu-b", "#ni", "#da", ".", " ">>,
    \* 고객중심 서비스로 이용자 편의를 높였습니다.
    <<"#go", "#gae-g", "#ju-ng", "#si-m", " ", "#seo", "#bi", "#seu", "#ro", " ", "#i", "#yo-ng", "#ja", " ", "#pyeo-n", "#ui", "#reu-l", " ", "#no-p", "#yeo-ss", "#seu-b", "#ni", "#da", ".", " ">>,
    \* 혁신과 소통!
    <<"#hyeo-g", "#si-n", "#gwa", " ", "#so", "#to-ng", "!", " ">>,
    \* (longer than 100 characters)
    <<"#jeo", "#neu-n", " ", "#dae", "#ha-g", " ", "#si", "#jeo-l", " ", "#do-ng", "#a", "#ri", " ", "#hoe", "#ja-ng", "#eu", "#ro", " ", "#hwa-l", "#do-ng", "#ha", "#myeo-n", "#seo", " ", "#gu", "#seo-ng", "#wo-n", "#deu-l", "#gwa", " ", "#mae", "#ju", " ", "#jeo-ng", "#gi", "#jeo-g", "#eu", "#ro", " ", "#hoe", "#ui", "#reu-l", " ", "#yeo-l", "#eo", " ", "#ui", "#gyeo-n", "#eu-l", " ", "#na", "#nu", "#eo-ss", "#go", " ", "#geu", " ", "#gwa", "#jeo-ng", "#e", "#seo", " ", "#seo", "#ro", " ", "#da", "#reu-n", " ", "#sae-ng", "#ga-g", "#eu-l", " ", "#ga", "#ji-n", " ", "#sa", "#ra-m", "#deu-l", "#gwa", " ", "#so", "#to-ng", "#ha", "#myeo", " ", "#ga-l", "#deu-ng", "#eu-l", " ", "#jo", "#yu-l", "#ha", "#go", " ", "#mu-n", "#je", "#hae", "#gyeo-l", " ", "#ba-ng", "#a-n", "#eu-l", " ", "#ha-m", "#kke", " ", "#cha-j", "#a", "#ga", "#neu-n", " ", "#ba-ng", "#beo-b", "#eu-l", " ", "#bae", "#wo-ss", "#seu-b", "#ni", "#da", ".", " ">>,
    \* ai 도구로 업무를 자동화했습니다.
    <<"a", "i", " ", "#do", "#gu", "#ro", " ", "#eo-b", "#mu", "#reu-l", " ", "#ja", "#do-ng", "#hwa", "#hae-ss", "#seu-b", "#ni", "#da", ".", " ">>,
    \* 의사소통능력과 도전정신을 발휘하여 협의했습니다.
    <<"#ui", "#sa", "#so", "#to-ng", "#neu-ng", "#ryeo-g", "#gwa", " ", "#do", "#jeo-n", "#jeo-ng", "#si-n", "#eu-l", " ", "#ba-l", "#hwi", "#ha", "#yeo", " ", "#hyeo-b", "#ui", "#hae-ss", "#seu-b", "#ni", "#da", ".">>,
    \* 국민 편의를 생각했습니다.
    <<" ", "#gu-g", "#mi-n", " ", "#pyeo-n", "#ui", "#reu-l", " ", "#sae-ng", "#ga-g", "#hae-ss", "#seu-b", "#ni", "#da", ".">> >>

\* the answers given to the scorer
ScoreAnswers == Texts(ScoreSentences, MaxSentences)

\* the core value names of an organization: in the table, unknown, or
\* written with surrounding blanks
ValueNames == { <<"#go", "#gae-g", "#ju-ng", "#si-m">>, <<" ", "#hyeo-g", "#si-n", " ">>, <<"#do", "#jeo-n", "#jeo-ng", "#si-n">> }

\* the competencies of a position: [name, code, importance]
Competencies ==
  { [name |-> <<"#ui", "#sa", "#so", "#to-ng", "#neu-ng", "#ryeo-g">>, code |-> <<"N", "C", "S", "0", "1">>, importance |-> Required],
    [name |-> <<"#su", "#ri", "#neu-ng", "#ryeo-g">>, code |-> <<"N", "C", "S", "0", "2">>, importance |-> Required],
    [name |-> <<"#do", "#jeo-n", "#jeo-ng", "#si-n">>, code |-> <<"X", "0", "1">>, importance |-> Recommended] }

(***************************************************************************)
(* The service as a state machine: one call per behaviour; call names the  *)
(* operation, args its arguments and result what it returned; _cache is   *)
(* the cache of the OrganizationManager and calls the calls made to it.    *)
(***************************************************************************)
Init ==
  /\ call = "none"
  /\ args = <<>>
  /\ result = <<>>
  /\ _cache = <<>>
  /\ calls = <<>>

Call_check_family_context ==
  /\ call = "none"
  /\ UNCHANGED <<_cache, calls>>
  /\ \E answer \in WarnAnswers :
       /\ call' = "_check_family_context"
       /\ args' = [answer |-> answer]
       /\ result' = _check_family_context(answer)

Call_check_blind_violations ==
  /\ call = "none"
  /\ UNCHANGED <<_cache, calls>>
  /\ \E answer \in WarnAnswers :
       /\ call' = "_check_blind_violations"
       /\ args' = [answer |-> answer]
       /\ result' = _check_blind_violations(answer)

Call_check_abstract_expressions ==
  /\ call = "none"
  /\ UNCHANGED <<_cache, calls>>
  /\ \E answer \in WarnAnswers :
       /\ call' = "_check_abstract_expressions"
       /\ args' = [answer |-> answer]
       /\ result' = _check_abstract_expressions(answer)

Call_check_missing_results ==
  /\ call = "none"
  /\ UNCHANGED <<_cache, calls>>
  /\ \E answer \in WarnAnswers \cup Texts(CheckSentences, MaxSentences) :
       /\ call' = "_check_missing_results"
       /\ args' = [answer |-> answer]
       /\ result' = _check_missing_results(answer)

Call_check_organization_name ==
  /\ call = "none"
  /\ UNCHANGED <<_cache, calls>>
  /\ \E answer \in WarnAnswers \cup Texts(CheckSentences, MaxSentences),
        organization \in Organizations :
       /\ call' = "_check_organization_name"
       /\ args' = [answer |-> answer, organization |-> organization]
       /\ result' = _check_organization_name(answer, organization)

Call_check_warnings ==
  /\ call = "none"
  /\ UNCHANGED <<_cache, calls>>
  /\ \E answer \in WarnAnswers, organization \in Organizations :
       /\ call' = "check_warnings"
       /\ args' = [answer |-> answer, organization |-> organization]
       /\ result' = check_warnings(answer, organization)

Call_analyze_core_values ==
  /\ call = "none"
  /\ UNCHANGED <<_cache, calls>>
  /\ \E answer \in ScoreAnswers, core_values \in SeqsUpTo(ValueNames, MaxValues) :
       /\ call' = "analyze_core_values"
       /\ args' = [answer |-> answer, core_values |-> core_values]
       /\ result' = analyze_core_values(answer, core_values)

Call_analyze_ncs_competencies ==
  /\ call = "none"
  /\ UNCHANGED <<_cache, calls>>
  /\ \E answer \in ScoreAnswers,
        ncs_competencies \in SeqsUpTo(Competencies, MaxCompetencies) :
       /\ call' = "analyze_ncs_competencies"
       /\ args' = [answer |-> answer, ncs_competencies |-> ncs_competencies]
       /\ result' = analyze_ncs_competencies(answer, ncs_competencies)

\* the auditor
NextWarn ==
  \/ Call_check_family_context
  \/ Call_check_blind_violations
  \/ Call_check_abstract_expressions
  \/ Call_check_missing_results
  \/ Call_check_organization_name
  \/ Call_check_warnings

SpecWarn == Init /\ [][NextWarn]_vars

\* the scorer
NextScore ==
  \/ Call_analyze_core_values
  \/ Call_analyze_ncs_competencies

SpecScore == Init /\ [][NextScore]_vars

(***************************************************************************)
(* Properties of the auditor (checked under SpecWarn)                      *)
(***************************************************************************)
\* the sentences _check_family_context splits the call's answer into
ArgSentences == Split(_SENTENCE_SPLIT_PATTERN, args.answer)

\* the positions of the sentence-level family-context warnings in a list
FamilyContextIn(ws) == {k \in 1..Len(ws) : ws[k].message = FamilyContextMessage}

\* the sentence has a family keyword and a personal-context pattern
FamilyAndPersonal(sentence) ==
  FoundFamilyWord(sentence) # <<>> /\ HasPersonalContext(sentence)

\* C1: a sentence that matches an exception pattern never produces the
\* family-context warning: every such warning quotes a sentence that matches
\* no exception pattern, and when every sentence with a family keyword and a
\* personal context matches an exception, there is no such warning.
C1_ExceptionSentenceExempt ==
  call \in {"_check_family_context", "_check_blind_violations", "check_warnings"} =>
    LET ss == ArgSentences
    IN  /\ \A k \in FamilyContextIn(result) :
             \E i \in 1..Len(ss) :
                /\ ~IsException(ss[i])
                /\ result[k].detected_text = FamilyDetectedText(ss[i])
        /\ (\A i \in 1..Len(ss) : FamilyAndPersonal(ss[i]) => IsException(ss[i]))
             => FamilyContextIn(result) = {}

\* C1 witness: a sentence of at least 10 characters with a family keyword, a
\* personal context and an exception pattern, and no family-context warning
C1_Witness ==
  /\ call = "_check_family_context"
  /\ LET sentences == ArgSentences
     IN  \E i \in 1..Len(sentences) :
            /\ Len(Strip(sentences[i])) >= 10
            /\ FamilyAndPersonal(sentences[i])
            /\ IsException(sentences[i])
  /\ FamilyContextIn(result) = {}

\* C2: an answer that matches a direct family pattern always gets exactly one
\* direct-pattern warning from _check_family_context, also when a
\* sentence-level warning is emitted in the same call.
C2_DirectCheckAlwaysRuns ==
  call = "_check_family_context" =>
    ((\E k \in 1..Len(_DIRECT_FAMILY_PATTERNS) :
         Search(_DIRECT_FAMILY_PATTERNS[k], args.answer))
       => Cardinality({k \in 1..Len(result) :
                         result[k].message = DirectFamilyMessage}) = 1)

\* the place of a warning type in the order of the four checks
CheckRank(type) ==
  CASE type = "blind_violation" -> 1
    [] type = "abstract_expression" -> 2
    [] type = "missing_result" -> 3
    [] type = "wrong_organization" -> 4

\* C3: the list check_warnings returns is ordered by check: blind_violation,
\* abstract_expression, missing_result, wrong_organization.
C3_WarningOrder ==
  call = "check_warnings" =>
    \A i, j \in 1..Len(result) :
       i < j => CheckRank(result[i].type) <= CheckRank(result[j].type)

\* C3 witness: a result that holds warnings of all four checks
C3_Witness ==
  /\ call = "check_warnings"
  /\ {result[k].type : k \in 1..Len(result)} =
       {"blind_violation", "abstract_expression", "missing_result", "wrong_organization"}

\* the text is, as a whole, one match of the pattern
FullMatch(r, text) ==
  LET es == Ends(r, text, 0) IN \E k \in 1..Len(es) : es[k] = Len(text)

\* C4: one _check_blind_violations call emits at most one school-name
\* warning and at most one region warning; the school warning is there
\* exactly when some school rule matches, and its texts are matches of the
\* first rule, in rule-list order, that matches; the region warning is there
\* exactly when the region rule matches, and quotes its leftmost match.
C4_OneSchoolOneRegion ==
  call = "_check_blind_violations" =>
    LET school == {k \in 1..Len(result) : result[k].message = SchoolMessage}
        region == {k \in 1..Len(result) : result[k].message = RegionMessage}
        rules == {r \in 1..Len(_SCHOOL_PATTERNS) : Search(_SCHOOL_PATTERNS[r], args.answer)}
        first == Least(rules)
        \* the third rule's texts are its group, the match less the final 대
        whole(t) == IF first = 3 THEN t \o <<"#dae">> ELSE t
    IN  /\ Cardinality(school) <= 1
        /\ Cardinality(region) <= 1
        /\ (school # {}) = (rules # {})
        /\ \A k \in school :
             /\ result[k].detected_text.joined # {}
             /\ \A t \in result[k].detected_text.joined :
                  FullMatch(_SCHOOL_PATTERNS[first], whole(t))
        /\ (region # {}) = Search(_REGION_PATTERNS[1], args.answer)
        /\ \A k \in region :
             result[k].detected_text = Group(_REGION_PATTERNS[1], args.answer)

\* C4 witness: several school rules match, the first of them several times,
\* and the region rule matches twice; one school and one region warning
C4_Witness ==
  /\ call = "_check_blind_violations"
  /\ Cardinality({r \in 1..Len(_SCHOOL_PATTERNS) :
                    Search(_SCHOOL_PATTERNS[r], args.answer)}) >= 2
  /\ Len(Spans(_REGION_PATTERNS[1], args.answer, 0)) >= 2
  /\ \E k \in 1..Len(result) :
        result[k].message = SchoolMessage
          /\ Cardinality(result[k].detected_text.joined) >= 2
  /\ \E k \in 1..Len(result) : result[k].message = RegionMessage

\* the sentences that qualify for the sentence-level family-context warning
QualifyingSentences ==
  LET sentences == ArgSentences
  IN  {i \in 1..Len(sentences) :
         /\ Len(Strip(sentences[i])) >= 10
         /\ ~IsException(sentences[i])
         /\ FamilyAndPersonal(sentences[i])}

\* C5: _check_family_context emits the sentence-level warning exactly when
\* some sentence qualifies (stripped length at least 10, no exception
\* pattern, a family keyword, a personal-context pattern); there is at most
\* one, it is for the first qualifying sentence, has severity high, and its
\* detected_text is the first 50 characters of the stripped sentence, with
\* "..." appended only when the stripped sentence is longer than 50.
C5_FamilyContextWarning ==
  call = "_check_family_context" =>
    LET fam == FamilyContextIn(result)
        qualifying == QualifyingSentences
        st == Strip(ArgSentences[Least(qualifying)])
    IN  /\ Cardinality(fam) = (IF qualifying = {} THEN 0 ELSE 1)
        /\ \A k \in fam :
             /\ result[k].severity = "high"
             /\ result[k].detected_text =
                  (IF Len(st) > 50 THEN SubSeq(st, 1, 50) \o <<".", ".", ".">> ELSE st)

\* C5 witness: two qualifying sentences, the first longer than 50 characters
C5_Witness ==
  /\ call = "_check_family_context"
  /\ LET qualifying == QualifyingSentences
     IN  /\ Cardinality(qualifying) >= 2
         /\ Len(Strip(ArgSentences[Least(qualifying)])) > 50
  /\ Len(result) = 1
  /\ Len(result[1].detected_text) = 53

(***************************************************************************)
(* Properties of the scorer (checked under SpecScore)                      *)
(***************************************************************************)
\* the call is one of the two scoring operations
ScoreCall == call \in {"analyze_core_values", "analyze_ncs_competencies"}

\* the name the k-th returned item was computed for
ItemName(k) ==
  IF call = "analyze_core_values" THEN Strip(args.core_values[k])
  ELSE args.ncs_competencies[k].name

\* the keyword list of the k-th item: the table entry of its name, or the
\* name itself when the table has none
ItemKeywords(k) ==
  KeywordsOf(IF call = "analyze_core_values" THEN value_keywords ELSE ncs_keywords,
             ItemName(k), <<ItemName(k)>>)

\* the positions, in its keyword list, of the k-th item's matched keywords
ItemMatched(k) ==
  LET keywords == ItemKeywords(k)
      answer_lower == Lower(args.answer)
  IN  {i \in 1..Len(keywords) :
         \/ Contains(Lower(keywords[i]), answer_lower)
         \/ call = "analyze_ncs_competencies" /\ Contains(keywords[i], args.answer)}

\* the step value the claims give for n matched keywords
Step3579(n) == CASE n = 0 -> 3 [] n = 1 -> 5 [] n = 2 -> 7 [] OTHER -> 9

\* 1 when the item's name appears verbatim in the answer, else 0
ItemBonus(k) == IF Contains(ItemName(k), args.answer) THEN 1 ELSE 0

\* C6: for the value scorer, score = step(n) plus 1 if the value name appears
\* verbatim in the answer, capped at 10, with step 3 / 5 / 7 / 9 for 0 / 1 /
\* 2 / 3-or-more matched keywords; so with the bonus condition held fixed the
\* score is non-decreasing in n, and it lies in 1..10.
C6_ValueScore ==
  call = "analyze_core_values" =>
    /\ \A k \in 1..Len(result) :
         LET raw == Step3579(Cardinality(ItemMatched(k))) + ItemBonus(k)
         IN  /\ result[k].score = (IF raw > 10 THEN 10 ELSE raw)
             /\ result[k].score \in 1..10
    /\ \A j, k \in 1..Len(result) :
         (/\ j # k
          /\ ItemBonus(j) = ItemBonus(k)
          /\ Cardinality(ItemMatched(j)) <= Cardinality(ItemMatched(k)))
           => result[j].score <= result[k].score

\* C6 witness: two values with the name bonus, one with one matched keyword
\* and one with more than three, scored 6 and 10
C6_Witness ==
  /\ call = "analyze_core_values"
  /\ \E j, k \in 1..Len(result) :
        /\ ItemBonus(j) = 1 /\ ItemBonus(k) = 1
        /\ Cardinality(ItemMatched(j)) = 1 /\ Cardinality(ItemMatched(k)) > 3
        /\ result[j].score = 6 /\ result[k].score = 10

\* C7 as stated: a competency whose name appears verbatim in the answer
\* scores the step value plus 1, capped at 10.
C7_CompetencyNameBonus ==
  call = "analyze_ncs_competencies" =>
    \A k \in 1..Len(result) :
       ItemBonus(k) = 1 =>
         LET raw == Step3579(Cardinality(ItemMatched(k))) + 1
         IN  result[k].score = (IF raw > 10 THEN 10 ELSE raw)

\* C7 as amended: competency scoring has no exact-name bonus; a competency
\* whose name appears verbatim in the answer has at least one matched
\* keyword and scores exactly the step value 5, 7 or 9.
C7_CompetencyNoNameBonus ==
  call = "analyze_ncs_competencies" =>
    \A k \in 1..Len(result) :
       ItemBonus(k) = 1 =>
         /\ Cardinality(ItemMatched(k)) >= 1
         /\ result[k].score = Step3579(Cardinality(ItemMatched(k)))

\* C7 witness: a competency named verbatim in the answer, three or more
\* keywords matched, scored 9
C7_Witness ==
  /\ call = "analyze_ncs_competencies"
  /\ \E k \in 1..Len(result) :
        ItemBonus(k) = 1 /\ Cardinality(ItemMatched(k)) >= 3 /\ result[k].score = 9

\* C8: a required competency with no matched keyword scores exactly 2; every
\* other competency scores the step value 3 / 5 / 7 / 9; so a required and
\* absent competency scores strictly lower than a non-required absent one.
C8_RequiredAbsent ==
  call = "analyze_ncs_competencies" =>
    /\ \A k \in 1..Len(result) :
         result[k].score =
           (IF args.ncs_competencies[k].importance = Required /\ ItemMatched(k) = {}
            THEN 2 ELSE Step3579(Cardinality(ItemMatched(k))))
    /\ \A j, k \in 1..Len(result) :
         (/\ ItemMatched(j) = {} /\ ItemMatched(k) = {}
          /\ args.ncs_competencies[j].importance = Required
          /\ args.ncs_competencies[k].importance # Required)
           => result[j].score < result[k].score

\* C8 witness: a required and a non-required competency, both without a
\* matched keyword, scored 2 and 3
C8_Witness ==
  /\ call = "analyze_ncs_competencies"
  /\ \E j, k \in 1..Len(result) :
        /\ ItemMatched(j) = {} /\ ItemMatched(k) = {}
        /\ args.ncs_competencies[j].importance = Required
        /\ args.ncs_competencies[k].importance # Required
        /\ result[j].score = 2 /\ result[k].score = 3

\* C9 as stated: found exactly when a keyword matched; suggestion non-empty
\* exactly when found is false; evidence non-empty exactly when found is true.
C9_FoundEvidenceSuggestion ==
  ScoreCall =>
    \A k \in 1..Len(result) :
       /\ result[k].found = (ItemMatched(k) # {})
       /\ (result[k].suggestion # <<>>) = ~result[k].found
       /\ (result[k].evidence # <<>>) = result[k].found

\* some matched keyword of the k-th item occurs, in its own letter case, in a
\* split sentence of the answer that is longer than 10 characters
ItemHasEvidenceSentence(k) ==
  LET sentences == ArgSentences
      keywords  == ItemKeywords(k)
  IN  \E i \in ItemMatched(k), j \in 1..Len(sentences) :
         Contains(keywords[i], sentences[j]) /\ Len(sentences[j]) > 10

\* C9 as amended: found exactly when a keyword matched; suggestion non-empty
\* exactly when found is false; evidence non-empty only when found is true,
\* and empty whenever no split sentence longer than 10 characters contains a
\* matched keyword.
C9_FoundSuggestionAndEvidenceOnlyIfFound ==
  ScoreCall =>
    \A k \in 1..Len(result) :
       /\ result[k].found = (ItemMatched(k) # {})
       /\ (result[k].suggestion # <<>>) = ~result[k].found
       /\ (result[k].evidence # <<>>) => result[k].found
       /\ ~ItemHasEvidenceSentence(k) => result[k].evidence = <<>>

\* C9 witness: an item that is found and has neither evidence nor suggestion
C9_Witness ==
  /\ ScoreCall
  /\ \E k \in 1..Len(result) :
        /\ result[k].found
        /\ result[k].evidence = <<>>
        /\ result[k].suggestion = <<>>

\* C10 as stated: the evidence is at most 100 characters long.
C10_EvidenceAtMost100 ==
  ScoreCall => \A k \in 1..Len(result) : Len(result[k].evidence) <= 100

\* C10 as amended: the evidence is at most 103 characters long; it is a
\* stripped sentence of the answer when that has at most 100 characters, and
\* otherwise the sentence's first 100 characters followed by "...".
C10_EvidenceAtMost103 ==
  ScoreCall =>
    \A k \in 1..Len(result) :
       /\ Len(result[k].evidence) <= 103
       /\ result[k].evidence # <<>> =>
            LET sentences == ArgSentences
            IN  \E j \in 1..Len(sentences) :
               LET st == Strip(sentences[j])
               IN  result[k].evidence =
                     (IF Len(st) > 100 THEN SubSeq(st, 1, 100) \o <<".", ".", ".">> ELSE st)

\* C10 witness: an evidence of 103 characters, cut from a longer sentence
C10_Witness ==
  /\ ScoreCall
  /\ \E k \in 1..Len(result) :
        /\ Len(result[k].evidence) = 103
        /\ SubSeq(result[k].evidence, 101, 103) = <<".", ".", ".">>

(***************************************************************************)
(* Question similarity matcher                                             *)
(***************************************************************************)
\* keyword_patterns of _extract_question_keywords, as listed (two of them
\* are listed twice)
keyword_patterns ==
  << \* 지원동기, 입사 후, 장단점, 강점, 약점, 경험, 사례
     <<"#ji", "#wo-n", "#do-ng", "#gi">>, <<"#i-b", "#sa", " ", "#hu">>, <<"#ja-ng", "#da-n", "#jeo-m">>, <<"#ga-ng", "#jeo-m">>, <<"#ya-g", "#jeo-m">>, <<"#gyeo-ng", "#heo-m">>, <<"#sa", "#rye">>,
     \* 갈등, 협력, 팀워크, 리더십, 문제해결, 성과, 실패
     <<"#ga-l", "#deu-ng">>, <<"#hyeo-b", "#ryeo-g">>, <<"#ti-m", "#wo", "#keu">>, <<"#ri", "#deo", "#si-b">>, <<"#mu-n", "#je", "#hae", "#gyeo-l">>, <<"#seo-ng", "#gwa">>, <<"#si-l", "#pae">>,
     \* 극복, 도전, 목표, 계획, 가치관, 인재상, 직무
     <<"#geu-g", "#bo-g">>, <<"#do", "#jeo-n">>, <<"#mo-g", "#pyo">>, <<"#gye", "#hoe-g">>, <<"#ga", "#chi", "#gwa-n">>, <<"#i-n", "#jae", "#sa-ng">>, <<"#ji-g", "#mu">>,
     \* 의사소통, 소통, 문제해결, 자기개발, 대인관계, 갈등관리
     <<"#ui", "#sa", "#so", "#to-ng">>, <<"#so", "#to-ng">>, <<"#mu-n", "#je", "#hae", "#gyeo-l">>, <<"#ja", "#gi", "#gae", "#ba-l">>, <<"#dae", "#i-n", "#gwa-n", "#gye">>, <<"#ga-l", "#deu-ng", "#gwa-n", "#ri">>,
     \* 조직이해, 기술, 정보, 수리, 윤리, 책임
     <<"#jo", "#ji-g", "#i", "#hae">>, <<"#gi", "#su-l">>, <<"#jeo-ng", "#bo">>, <<"#su", "#ri">>, <<"#yu-n", "#ri">>, <<"#chae-g", "#i-m">>,
     \* 팀, 프로젝트, 업무, 성공, 실패, 어려움, 노력
     <<"#ti-m">>, <<"#peu", "#ro", "#je-g", "#teu">>, <<"#eo-b", "#mu">>, <<"#seo-ng", "#go-ng">>, <<"#si-l", "#pae">>, <<"#eo", "#ryeo", "#u-m">>, <<"#no", "#ryeo-g">>,
     \* 결과, 성장, 학습, 개선, 혁신
     <<"#gyeo-l", "#gwa">>, <<"#seo-ng", "#ja-ng">>, <<"#ha-g", "#seu-b">>, <<"#gae", "#seo-n">>, <<"#hyeo-g", "#si-n">> >>

\* _extract_question_keywords(question): the set of the listed keywords
\* contained in the question
_extract_question_keywords(question) ==
  LET question_lower == Lower(question)
  IN  {keyword_patterns[k] : k \in
         {i \in 1..Len(keyword_patterns) :
            \/ Contains(keyword_patterns[i], question)
            \/ Contains(Lower(keyword_patterns[i]), question_lower)}}

\* the number num / den (den > 0), in lowest terms
Fraction(num, den) ==
  LET RECURSIVE GCD(_, _)
      GCD(a, b) == IF b = 0 THEN a ELSE GCD(b, a % b)
      g == GCD(num, den)
  IN  [num |-> num \div g, den |-> den \div g]

\* x < y for two numbers in lowest terms
FractionLess(x, y) == x.num * y.den < y.num * x.den

\* DoubledMax without the keyword lists of the past question (a faulty variant)
DoubledMax_PromptOnly(total_weight, n) == 2 * total_weight

\* twice max(total_weight, n / 2)
DoubledMax(total_weight, n) == IF 2 * total_weight >= n THEN 2 * total_weight ELSE n

\* (similarity, matched) of _calculate_similarity.  matched_weight counts
\* tenths (10 for a keyword in the text, 8 for one only in the keyword
\* lists), and max(total_weight, len(all_past_keywords) / 2) is held
\* doubled, so that
\*   matched_weight / max(...) * 100 = (tenths / 10) / (doubled / 2) * 100.
\* matched is built in the iteration order of a set, which is unspecified:
\* it is kept as the set of its elements.
_calculate_similarity(question_keywords, past_question, past_keywords, past_ncs) ==
  LET all_past_keywords ==
        {(past_keywords \o past_ncs)[k] : k \in 1..Len(past_keywords \o past_ncs)}
      past_lower == Lower(past_question)
      in_text == {kw \in question_keywords :
                    Contains(kw, past_question) \/ Contains(Lower(kw), past_lower)}
      in_list == {kw \in question_keywords \ in_text : kw \in all_past_keywords}
      total_weight == Cardinality(question_keywords)
      tenths == 10 * Cardinality(in_text) + 8 * Cardinality(in_list)
      doubled == DoubledMax(total_weight, Cardinality(all_past_keywords))
      similarity == Fraction(tenths * 2 * 100, 10 * doubled)
      hundred == Fraction(100, 1)
  IN  IF total_weight = 0
      THEN [similarity |-> Fraction(0, 1), matched |-> in_text \cup in_list]
      ELSE [similarity |-> IF FractionLess(hundred, similarity) THEN hundred ELSE similarity,
            matched |-> in_text \cup in_list]

\* a question that is not given
None == <<"None">>

\* the years whose files are read, in reading order
Years == <<2025, 2024, 2023, 2022, 2021>>

\* f"{organization.upper()}_{year}.json"
QuestionFileName(organization, year) ==
  LET \* str(n) for a natural number
      RECURSIVE DecimalText(_)
      DecimalText(n) ==
        LET digit == <<"0", "1", "2", "3", "4", "5", "6", "7", "8", "9">>[(n % 10) + 1]
        IN  IF n < 10 THEN <<digit>> ELSE Append(DecimalText(n \div 10), digit)
  IN  Upper(organization) \o <<"_">> \o DecimalText(year) \o <<".", "j", "s", "o", "n">>

\* KeepsEntry without the floor (a faulty variant)
KeepsEntry_NoFloor(similarity) == TRUE

\* similarity >= 30
KeepsEntry(similarity) == ~FractionLess(similarity, Fraction(30, 1))

\* the entries one year's file adds to `similar`: none when the file does
\* not exist, cannot be read, or is marked as not verified
YearSimilar(question_keywords, organization, year, db) ==
  LET name == QuestionFileName(organization, year)
      data == db.files[name]
      entry(q) ==
        LET r == _calculate_similarity(question_keywords, q.text, q.keywords, q.ncs_categories)
        IN  [year |-> year,
             half |-> data.half,
             question |-> q.text,
             similarity |-> r.similarity,
             char_limit |-> q.char_limit,
             matched_keywords |-> r.matched]
      entries == [k \in 1..Len(data.questions) |-> entry(data.questions[k])]
  IN  IF name \notin DOMAIN db.files THEN <<>>
      ELSE IF ~data.readable THEN <<>>
      ELSE IF ~data.verified THEN <<>>
      ELSE SelectSeq(entries, LAMBDA e : KeepsEntry(e.similarity))

\* SortBySimilarity with entries of equal similarity in reverse order (a
\* faulty variant)
SortBySimilarity_TiesReversed(similar) ==
  LET before(i) ==
        {j \in 1..Len(similar) :
           \/ FractionLess(similar[i].similarity, similar[j].similarity)
           \/ similar[j].similarity = similar[i].similarity /\ j > i}
  IN  [p \in 1..Len(similar) |->
         similar[CHOOSE i \in 1..Len(similar) : Cardinality(before(i)) = p - 1]]

\* similar.sort(key=lambda x: x.similarity, reverse=True): a stable sort,
\* so an entry goes behind those of greater similarity and those of equal
\* similarity that stood before it
SortBySimilarity(similar) ==
  LET before(i) ==
        {j \in 1..Len(similar) :
           \/ FractionLess(similar[i].similarity, similar[j].similarity)
           \/ similar[j].similarity = similar[i].similarity /\ j < i}
  IN  [p \in 1..Len(similar) |->
         similar[CHOOSE i \in 1..Len(similar) : Cardinality(before(i)) = p - 1]]

\* find_similar_questions(question, organization), given the question
\* database on disk
find_similar_questions(question, organization, db) ==
  IF question = None \/ question = <<>> THEN <<>>
  ELSE IF ~db.exists THEN <<>>
  ELSE LET question_keywords == _extract_question_keywords(question)
           \* what the loop over the years from position k on appends
           RECURSIVE SimilarFrom(_)
           SimilarFrom(k) ==
             IF k > Len(Years) THEN <<>>
             ELSE YearSimilar(question_keywords, organization, Years[k], db)
                    \o SimilarFrom(k + 1)
           similar == SimilarFrom(1)
       IN  Slice(SortBySimilarity(similar), 0, 5)

\* the most sentences a prompt is made of
MaxPromptParts == 2

\* the most questions a year's file holds
MaxQuestions == 2

\* the prompts of a request: none, or a text of sentences, of which the
\* first holds the keywords 지원동기, 입사 후 and 계획, the second 팀워크,
\* 팀 and 경험, the third none
Prompts ==
  LET PromptParts ==
        << <<"#ji", "#wo-n", "#do-ng", "#gi", "#wa", " ", "#i-b", "#sa", " ", "#hu", " ", "#gye", "#hoe-g", "#eu-l", " ", "#sseu", "#si", "#o", ".", " ">>,
           <<"#ti-m", "#wo", "#keu", " ", "#gyeo-ng", "#heo-m", "#eu-l", " ", "#sseu", "#si", "#o", ".", " ">>,
           <<"#ja", "#yu", "#ro-b", "#ge", " ", "#sseu", "#si", "#o", ".">> >>
  IN  {None} \cup Texts(PromptParts, MaxPromptParts)

\* questions of earlier years
PastQuestions ==
  << [text |-> <<"#ji", "#wo-n", "#do-ng", "#gi", "#wa", " ", "#i-b", "#sa", " ", "#hu", " ", "#gye", "#hoe-g", "#eu-l", " ", "#sseu", "#si", "#o">>,
      keywords |-> << <<"#ji", "#wo-n", "#do-ng", "#gi">>, <<"#po", "#bu">> >>,
      ncs_categories |-> <<>>,
      char_limit |-> 500],
     [text |-> <<"#ti-m", " ", "#peu", "#ro", "#je-g", "#teu", " ", "#gyeo-ng", "#heo-m", "#eu-l", " ", "#sseu", "#si", "#o">>,
      keywords |-> << <<"#ti-m", "#wo", "#keu">>, <<"#hyeo-b", "#eo-b">>, <<"#gyeo-ng", "#heo-m">> >>,
      ncs_categories |-> << <<"#dae", "#i-n", "#gwa-n", "#gye">> >>,
      char_limit |-> 600],
     [text |-> <<"#ji", "#wo-n", "#do-ng", "#gi", ",", " ", "#i-b", "#sa", " ", "#hu", " ", "#gye", "#hoe-g">>,
      keywords |-> << <<"#ji", "#wo-n", "#do-ng", "#gi">>, <<"#po", "#bu">>, <<"#bi", "#jeo-n">>, <<"#mo-g", "#pyo">>, <<"#gye", "#hoe-g">>, <<"#seo-ng", "#ja-ng">> >>,
      ncs_categories |-> << <<"#jo", "#ji-g", "#i", "#hae">>, <<"#ja", "#gi", "#gae", "#ba-l">>, <<"#seo-ng", "#ja-ng">> >>,
      char_limit |-> 0],
     [text |-> <<"#ji-g", "#mu", " ", "#gyeo-ng", "#heo-m">>,
      keywords |-> << <<"#ji-g", "#mu">>, <<"#gye", "#hoe-g">> >>,
      ncs_categories |-> <<>>,
      char_limit |-> 700] >>

\* the files a year can have: two verified ones, one marked as not
\* verified, one that cannot be read
QuestionFiles ==
  [A |-> [readable |-> TRUE, verified |-> TRUE, half |-> <<"#sa-ng", "#ba-n", "#gi">>,
          questions |-> SubSeq(PastQuestions, 1, MaxQuestions)],
   B |-> [readable |-> TRUE, verified |-> TRUE, half |-> <<"#ha", "#ba-n", "#gi">>,
          questions |-> SubSeq(PastQuestions \o PastQuestions, 3, 2 + MaxQuestions)],
   unverified |-> [readable |-> TRUE, verified |-> FALSE, half |-> <<"#sa-ng", "#ba-n", "#gi">>,
                   questions |-> SubSeq(PastQuestions, 1, MaxQuestions)],
   unreadable |-> [readable |-> FALSE, verified |-> TRUE, half |-> <<>>,
                   questions |-> <<>>]]

\* the databases: none at all, or one in which every year of the
\* organization KWATER has a verified file or is left out in one and the
\* same way ("missing": no file)
Databases ==
  LET year(name) == CHOOSE k \in 1..Len(Years) : name = QuestionFileName(<<"K", "W", "A", "T", "E", "R">>, Years[k])
      Database(kinds) ==
        [exists |-> TRUE,
         files |-> [name \in {QuestionFileName(<<"K", "W", "A", "T", "E", "R">>, Years[k]) :
                                k \in {i \in 1..Len(Years) : kinds[i] # "missing"}}
                      |-> QuestionFiles[kinds[year(name)]]]]
  IN  {[exists |-> FALSE, files |-> <<>>]} \cup
      {Database(kinds) : kinds \in
         UNION {[1..Len(Years) -> {"A", "B", skip}] :
                  skip \in {"missing", "unverified", "unreadable"}}}

Call_extract_question_keywords ==
  /\ call = "none"
  /\ UNCHANGED <<_cache, calls>>
  /\ \E question \in Prompts \ {None} :
       /\ call' = "_extract_question_keywords"
       /\ args' = [question |-> question]
       /\ result' = _extract_question_keywords(question)

Call_calculate_similarity ==
  /\ call = "none"
  /\ UNCHANGED <<_cache, calls>>
  /\ \E question \in Prompts \ {None}, k \in 1..Len(PastQuestions) :
       LET question_keywords == _extract_question_keywords(question)
           q == PastQuestions[k]
       IN  /\ call' = "_calculate_similarity"
           /\ args' = [question_keywords |-> question_keywords,
                       past_question |-> q.text,
                       past_keywords |-> q.keywords,
                       past_ncs |-> q.ncs_categories]
           /\ result' = _calculate_similarity(question_keywords, q.text, q.keywords,
                                              q.ncs_categories)

Call_find_similar_questions ==
  /\ call = "none"
  /\ UNCHANGED <<_cache, calls>>
  /\ \E question \in Prompts, organization \in Organizations, db \in Databases :
       /\ call' = "find_similar_questions"
       /\ args' = [question |-> question, organization |-> organization, db |-> db]
       /\ result' = find_similar_questions(question, organization, db)

\* the similarity matcher
NextSimilar ==
  \/ Call_extract_question_keywords
  \/ Call_calculate_similarity
  \/ Call_find_similar_questions

SpecSimilar == Init /\ [][NextSimilar]_vars

(***************************************************************************)
(* Properties of the similarity matcher (checked under SpecSimilar)        *)
(***************************************************************************)
\* the questions the call's database holds for the call's organization in
\* verified, readable files, in corpus order (years 2025 down to 2021,
\* file order within a year), each with its year and the similarity to the
\* call's prompt
Corpus ==
  LET keywords == _extract_question_keywords(args.question)
      RECURSIVE CorpusFrom(_)
      CorpusFrom(k) ==
        IF k > Len(Years) THEN <<>>
        ELSE LET name == QuestionFileName(args.organization, Years[k])
                 data == args.db.files[name]
             IN  (IF name \in DOMAIN args.db.files /\ data.readable /\ data.verified
                  THEN [i \in 1..Len(data.questions) |->
                          [year |-> Years[k],
                           question |-> data.questions[i].text,
                           similarity |->
                             _calculate_similarity(keywords, data.questions[i].text,
                                                   data.questions[i].keywords,
                                                   data.questions[i].ncs_categories).similarity]]
                  ELSE <<>>) \o CorpusFrom(k + 1)
  IN  IF args.question = None \/ ~args.db.exists THEN <<>> ELSE CorpusFrom(1)

\* C11: find_similar_questions never returns an entry whose similarity is
\* below 30, and a prompt that is not given, is empty or contains none of
\* the vocabulary keywords yields an empty result.
C11_SimilarityFloor ==
  call = "find_similar_questions" =>
    /\ \A k \in 1..Len(result) : result[k].similarity.num >= 30 * result[k].similarity.den
    /\ (\/ args.question = None
        \/ args.question = <<>>
        \/ \A i \in 1..Len(keyword_patterns) : ~Contains(keyword_patterns[i], args.question))
         => result = <<>>

\* C11 witness: the corpus holds a question of similarity above 0 and below
\* 30 and one of at least 30; the result has entries
C11_Witness ==
  /\ call = "find_similar_questions"
  /\ result # <<>>
  /\ LET corpus == Corpus
     IN  \E i \in 1..Len(corpus) :
            corpus[i].similarity.num > 0 /\ corpus[i].similarity.num < 30 * corpus[i].similarity.den

\* C12: find_similar_questions returns at most 5 entries (all the corpus
\* entries of similarity at least 30 when there are at most 5), sorted in
\* non-increasing similarity, entries of equal similarity in corpus order;
\* every corpus entry of similarity at least 30 that is not returned has a
\* similarity no greater than that of every returned entry.
C12_TopFiveStable ==
  call = "find_similar_questions" =>
    LET corpus == Corpus
        kept == {i \in 1..Len(corpus) : corpus[i].similarity.num >= 30 * corpus[i].similarity.den}
        pos(k) == {i \in kept : /\ corpus[i].year = result[k].year
                                /\ corpus[i].question = result[k].question
                                /\ corpus[i].similarity = result[k].similarity}
        returned == UNION {pos(k) : k \in 1..Len(result)}
    IN  /\ Len(result) <= 5
        /\ Len(result) = (IF Cardinality(kept) < 5 THEN Cardinality(kept) ELSE 5)
        /\ \A k \in 1..Len(result) : Cardinality(pos(k)) = 1
        /\ \A j, k \in 1..Len(result) :
             j < k =>
               \/ FractionLess(result[k].similarity, result[j].similarity)
               \/ /\ result[k].similarity = result[j].similarity
                  /\ \A a \in pos(j), b \in pos(k) : a < b
        /\ \A i \in kept \ returned, k \in 1..Len(result) :
             ~FractionLess(result[k].similarity, corpus[i].similarity)

\* C12 witness: more than 5 corpus entries of similarity at least 30, 5
\* returned, two of equal similarity from different years among them, and
\* an entry of an earlier year ahead of one of a later year
C12_Witness ==
  /\ call = "find_similar_questions"
  /\ Len(result) = 5
  /\ LET corpus == Corpus
     IN  Cardinality({i \in 1..Len(corpus) : corpus[i].similarity.num >= 30 * corpus[i].similarity.den}) > 5
  /\ \E j, k \in 1..Len(result) :
        /\ j < k
        /\ result[j].similarity = result[k].similarity
        /\ result[j].year # result[k].year
  /\ \E j, k \in 1..Len(result) : j < k /\ result[j].year < result[k].year

\* C13: _calculate_similarity returns matched_weight / max(P, H / 2) * 100,
\* within 0..100, for P > 0 prompt keywords and H distinct entries of the
\* past question's keyword and tag lists, where matched_weight is 1.0 for
\* each prompt keyword contained in the past question's text and 0.8 for
\* each other prompt keyword in the keyword/tag set (and 0 for P = 0); when
\* every prompt keyword is in the text, it is 100 exactly when H / 2 <= P.
C13_SimilarityFormula ==
  call = "_calculate_similarity" =>
    LET P == Cardinality(args.question_keywords)
        tags == {args.past_keywords[k] : k \in 1..Len(args.past_keywords)}
                  \cup {args.past_ncs[k] : k \in 1..Len(args.past_ncs)}
        H == Cardinality(tags)
        text == {kw \in args.question_keywords : Contains(kw, args.past_question)}
        listed == {kw \in args.question_keywords : kw \notin text /\ kw \in tags}
        \* ten times matched_weight, twice max(P, H / 2)
        weight10 == 10 * Cardinality(text) + 8 * Cardinality(listed)
        max2 == IF 2 * P >= H THEN 2 * P ELSE H
        s == result.similarity
    IN  /\ s.num >= 0 /\ s.den > 0 /\ s.num <= 100 * s.den
        /\ P = 0 => s.num = 0
        /\ P > 0 => s.num * 10 * max2 = s.den * weight10 * 2 * 100
        /\ (P > 0 /\ text = args.question_keywords) =>
             /\ (H <= 2 * P) => (s.num = 100 * s.den)
             /\ (H > 2 * P) => (s.num < 100 * s.den)

\* C13 witness: every prompt keyword is in the past question's text, which
\* has more than twice as many keywords and tags: the similarity is 75
C13_Witness ==
  /\ call = "_calculate_similarity"
  /\ args.question_keywords # {}
  /\ \A kw \in args.question_keywords : Contains(kw, args.past_question)
  /\ Cardinality({args.past_keywords[k] : k \in 1..Len(args.past_keywords)}
                   \cup {args.past_ncs[k] : k \in 1..Len(args.past_ncs)})
       > 2 * Cardinality(args.question_keywords)
  /\ result.similarity = [num |-> 75, den |-> 1]

(***************************************************************************)
(* Paragraph breaks of a model answer                                      *)
(***************************************************************************)
\* phrases that open a new paragraph
paragraph_starters ==
  << <<"#i", "#reo", "#ha-n", " ", "#gyeo-ng", "#heo-m">>,
     <<"#i", "#reu-l", " ", "#gye", "#gi", "#ro">>,
     <<"#i", "#hu">>,
     <<"#tto", "#ha-n">>,
     <<"#ha-n", "#pyeo-n">>,
     <<"#na", "#a", "#ga">>,
     <<"#a-p", "#eu", "#ro">>,
     <<"#i-b", "#sa", " ", "#hu">>,
     <<"#teu-g", "#hi">>,
     <<"#gyeo-l", "#gwa", "#jeo-g", "#eu", "#ro">>,
     <<"#i", "#reu-l", " ", "#to-ng", "#hae">>,
     <<"#i", "#cheo", "#reo-m">> >>

\* StarterPattern with any character in place of the sentence-terminal mark
\* (a faulty variant)
StarterPattern_AnyMark(starter) ==
  Cat(<<AnyChar, Rep(1, Unbounded, In({}, {"space"})), Str(starter)>>)

\* rf'([.!?])\s+({starter})'
StarterPattern(starter) ==
  Cat(<<In({".", "!", "?"}, {}), Rep(1, Unbounded, In({}, {"space"})), Str(starter)>>)

\* re.sub(pattern, r'\1\n\n\2', result) for the pattern of one starter:
\* every match gives way to its first character (group 1), two line breaks
\* and the starter (group 2)
BreakBefore(starter, text) ==
  LET spans == Spans(StarterPattern(starter), text, 0)
      RECURSIVE Sub(_, _)
      Sub(k, from) ==
        IF k > Len(spans) THEN SubSeq(text, from + 1, Len(text))
        ELSE SubSeq(text, from + 1, spans[k][1])
               \o <<text[spans[k][1] + 1], "\n", "\n">> \o starter
               \o Sub(k + 1, spans[k][2])
  IN  Sub(1, 0)

\* _format_model_answer_paragraphs that takes texts with a line break too
\* and stops after the first starter that adds a break (a faulty variant)
_format_model_answer_paragraphs_OneStarter(model_answer) ==
  LET RECURSIVE Loop(_)
      Loop(k) ==
        IF k > Len(paragraph_starters) THEN model_answer
        ELSE IF BreakBefore(paragraph_starters[k], model_answer) # model_answer
        THEN BreakBefore(paragraph_starters[k], model_answer)
        ELSE Loop(k + 1)
  IN  IF model_answer = <<>> THEN model_answer ELSE Loop(1)

_format_model_answer_paragraphs(model_answer) ==
  LET RECURSIVE Loop(_, _)
      \* the loop over the starters from position k on
      Loop(text, k) ==
        IF k > Len(paragraph_starters) THEN text
        ELSE Loop(BreakBefore(paragraph_starters[k], text), k + 1)
  IN  IF model_answer = <<>> THEN model_answer
      ELSE IF \E i \in 1..Len(model_answer) : model_answer[i] = "\n" THEN model_answer
      ELSE Loop(model_answer, 1)

\* the most sentences a model answer is made of
MaxAnswerParts == 3

\* the model answers: texts of sentences, most of which open with a starter.
\* The sentence before decides what stands ahead of the starter: a mark and
\* one space, a mark and a tab and a space, a mark and two spaces, a comma,
\* a mark and nothing, a mark and a line break.  The fourth sentence holds
\* a starter (이후) in its middle, the last one none at its head.
ModelAnswers ==
  LET AnswerParts ==
        << <<"#seo-ng", "#si-l", "#hi", " ", "#i-l", "#hae-ss", "#seu-b", "#ni", "#da", ".", " ">>,
           <<"#i", "#reo", "#ha-n", " ", "#gyeo-ng", "#heo-m", "#eu-l", " ", "#sa-l", "#ryeo-ss", "#seu-b", "#ni", "#da", "!", " ">>,
           <<"#tto", "#ha-n", " ", "#bae", "#wo-ss", "#seu-b", "#ni", "#da", "?", "\t", " ">>,
           <<"#teu-g", "#hi", " ", "#i", "#hu", " ", "#seo-ng", "#ja-ng", "#hae-ss", "#seu-b", "#ni", "#da", ".", " ", " ">>,
           <<"#i-b", "#sa", " ", "#hu", " ", "#gi", "#yeo", "#ha", "#ge-ss", "#seu-b", "#ni", "#da", ",", " ">>,
           <<"#a-p", "#eu", "#ro", " ", "#no", "#ryeo-g", "#ha", "#ge-ss", "#seu-b", "#ni", "#da", ".">>,
           <<"#i", "#hu", "#e", "#do", " ", "#gye", "#so-g", "#ha", "#ge-ss", "#seu-b", "#ni", "#da", ".", "\n">>,
           <<"#gyeo-l", "#gwa", "#jeo-g", "#eu", "#ro", " ", "#seo-ng", "#gwa", "#reu-l", " ", "#nae-ss", "#seu-b", "#ni", "#da", ".", " ">>,
           <<"#ga-m", "#sa", "#ha-b", "#ni", "#da", ".", " ", "#i", "#reu-l", " ", "#to-ng", "#hae", " ", "#seo-ng", "#ja-ng", "#hae-ss", "#seu-b", "#ni", "#da", ".">> >>
  IN  Texts(AnswerParts, MaxAnswerParts)

Call_format_model_answer_paragraphs ==
  /\ call = "none"
  /\ UNCHANGED <<_cache, calls>>
  /\ \E model_answer \in ModelAnswers :
       /\ call' = "_format_model_answer_paragraphs"
       /\ args' = [model_answer |-> model_answer]
       /\ result' = _format_model_answer_paragraphs(model_answer)

\* the paragraph formatter
SpecFormat == Init /\ [][Call_format_model_answer_paragraphs]_vars

(***************************************************************************)
(* Properties of the paragraph formatter (checked under SpecFormat)        *)
(***************************************************************************)
\* the runs of whitespace of the call's model answer between a
\* sentence-terminal mark and a paragraph starter: <<a, b>> for the mark at
\* position a and the whitespace at positions a + 1 .. b
BreakRuns ==
  LET \* the offsets at which a paragraph starter begins
      StarterOffsets ==
        {b \in 0..Len(args.model_answer) :
           \E k \in 1..Len(paragraph_starters) :
              /\ b + Len(paragraph_starters[k]) <= Len(args.model_answer)
              /\ \A j \in 1..Len(paragraph_starters[k]) :
                    args.model_answer[b + j] = paragraph_starters[k][j]}
  IN
  {r \in (1..Len(args.model_answer)) \X StarterOffsets :
     /\ r[1] < r[2]
     /\ args.model_answer[r[1]] \in {".", "!", "?"}
     /\ \A i \in (r[1] + 1)..r[2] : args.model_answer[i] \in AsciiSpace}

\* C14: _format_model_answer_paragraphs is idempotent: applied to its own
\* result, it returns that result.
C14_FormatIdempotent ==
  call = "_format_model_answer_paragraphs" =>
    _format_model_answer_paragraphs(result) = result

\* C14 witness: a result with breaks before two different starters
C14_Witness ==
  /\ call = "_format_model_answer_paragraphs"
  /\ result # args.model_answer
  /\ \E j, k \in 1..Len(paragraph_starters) :
        /\ j # k
        /\ Contains(<<"\n", "\n">> \o paragraph_starters[j], result)
        /\ Contains(<<"\n", "\n">> \o paragraph_starters[k], result)

\* C15: _format_model_answer_paragraphs returns its input unchanged when it
\* is empty or holds a line break; otherwise the result is the input with
\* each run of whitespace between a sentence-terminal mark (. ! ?) and a
\* following paragraph starter replaced by a blank-line break, and nothing
\* else changed (a starter that does not follow a mark and whitespace stays
\* as it is).
C15_OnlyBreaksAfterMarks ==
  call = "_format_model_answer_paragraphs" =>
    LET s == args.model_answer
        runs == BreakRuns
        RECURSIVE Build(_)
        Build(i) ==
          IF i > Len(s) THEN <<>>
          ELSE (IF \E r \in runs : i = r[1] + 1 THEN <<"\n", "\n">>
                ELSE IF \E r \in runs : r[1] < i /\ i <= r[2] THEN <<>>
                ELSE <<s[i]>>) \o Build(i + 1)
    IN  IF s = <<>> \/ \E i \in 1..Len(s) : s[i] = "\n"
        THEN result = s
        ELSE result = Build(1)

\* C15 witness: a model answer with a starter after a mark and whitespace
\* and with one after a comma and a space, which is still there in the
\* result; the result differs from the model answer
C15_Witness ==
  /\ call = "_format_model_answer_paragraphs"
  /\ result # args.model_answer
  /\ BreakRuns # {}
  /\ \E k \in 1..Len(paragraph_starters) :
        Contains(<<",", " ">> \o paragraph_starters[k], result)

(***************************************************************************)
(* SkillExtractor (src/analyzer/skill_extractor.py)                        *)
(***************************************************************************)
\* the known skills by category, in the order of the dictionary
SKILL_DATABASE ==
  << [category |-> "programming_language",
      skills |->
      << <<"p", "y", "t", "h", "o", "n">>,
         <<"j", "a", "v", "a", "s", "c", "r", "i", "p", "t">>,
         <<"t", "y", "p", "e", "s", "c", "r", "i", "p", "t">>,
         <<"j", "a", "v", "a">>,
         <<"c", "+", "+">>,
         <<"c", "#">>,
         <<"g", "o">>,
         <<"r", "u", "s", "t">>,
         <<"r", "u", "b", "y">>,
         <<"p", "h", "p">>,
         <<"s", "w", "i", "f", "t">>,
         <<"k", "o", "t", "l", "i", "n">>,
         <<"s", "c", "a", "l", "a">>,
         <<"r">>,
         <<"m", "a", "t", "l", "a", "b">>,
         <<"p", "e", "r", "l">>,
         <<"l", "u", "a">>,
         <<"d", "a", "r", "t">>,
         <<"e", "l", "i", "x", "i", "r">>,
         <<"h", "a", "s", "k", "e", "l", "l">>,
         <<"c", "l", "o", "j", "u", "r", "e">> >>],
     [category |-> "framework",
      skills |->
      << <<"r", "e", "a", "c", "t">>,
         <<"v", "u", "e">>,
         <<"a", "n", "g", "u", "l", "a", "r">>,
         <<"s", "v", "e", "l", "t", "e">>,
         <<"n", "e", "x", "t", ".", "j", "s">>,
         <<"n", "u", "x", "t">>,
         <<"f", "a", "s", "t", "a", "p", "i">>,
         <<"d", "j", "a", "n", "g", "o">>,
         <<"f", "l", "a", "s", "k">>,
         <<"s", "p", "r", "i", "n", "g">>,
         <<"s", "p", "r", "i", "n", "g", " ", "b", "o", "o", "t">>,
         <<"e", "x", "p", "r", "e", "s", "s">>,
         <<"n", "e", "s", "t", ".", "j", "s">>,
         <<"n", "o", "d", "e", ".", "j", "s">>,
         <<"r", "a", "i", "l", "s">>,
         <<"l", "a", "r", "a", "v", "e", "l">>,
         <<"a", "s", "p", ".", "n", "e", "t">>,
         <<".", "n", "e", "t">>,
         <<"p", "y", "t", "o", "r", "c", "h">>,
         <<"t", "e", "n", "s", "o", "r", "f", "l", "o", "w">>,
         <<"k", "e", "r", "a", "s">> >>],
     [category |-> "database",
      skills |->
      << <<"p", "o", "s", "t", "g", "r", "e", "s", "q", "l">>,
         <<"m", "y", "s", "q", "l">>,
         <<"m", "a", "r", "i", "a", "d", "b">>,
         <<"m", "o", "n", "g", "o", "d", "b">>,
         <<"r", "e", "d", "i", "s">>,
         <<"e", "l", "a", "s", "t", "i", "c", "s", "e", "a", "r", "c", "h">>,
         <<"c", "a", "s", "s", "a", "n", "d", "r", "a">>,
         <<"d", "y", "n", "a", "m", "o", "d", "b">>,
         <<"s", "q", "l", "i", "t", "e">>,
         <<"o", "r", "a", "c", "l", "e">>,
         <<"s", "q", "l", " ", "s", "e", "r", "v", "e", "r">>,
         <<"n", "e", "o", "4", "j">>,
         <<"c", "o", "c", "k", "r", "o", "a", "c", "h", "d", "b">>,
         <<"i", "n", "f", "l", "u", "x", "d", "b">> >>],
     [category |-> "cloud",
      skills |->
      << <<"a", "w", "s">>,
         <<"g", "c", "p">>,
         <<"a", "z", "u", "r", "e">>,
         <<"d", "o", "c", "k", "e", "r">>,
         <<"k", "u", "b", "e", "r", "n", "e", "t", "e", "s">>,
         <<"t", "e", "r", "r", "a", "f", "o", "r", "m">>,
         <<"a", "n", "s", "i", "b", "l", "e">>,
         <<"j", "e", "n", "k", "i", "n", "s">>,
         <<"g", "i", "t", "h", "u", "b", " ", "a", "c", "t", "i", "o", "n", "s">>,
         <<"g", "i", "t", "l", "a", "b", " ", "c", "i">>,
         <<"c", "i", "r", "c", "l", "e", "c", "i">>,
         <<"h", "e", "r", "o", "k", "u">>,
         <<"v", "e", "r", "c", "e", "l">>,
         <<"n", "e", "t", "l", "i", "f", "y">>,
         <<"c", "l", "o", "u", "d", "f", "l", "a", "r", "e">> >>],
     [category |-> "tool",
      skills |->
      << <<"g", "i", "t">>,
         <<"g", "i", "t", "h", "u", "b">>,
         <<"g", "i", "t", "l", "a", "b">>,
         <<"b", "i", "t", "b", "u", "c", "k", "e", "t">>,
         <<"j", "i", "r", "a">>,
         <<"c", "o", "n", "f", "l", "u", "e", "n", "c", "e">>,
         <<"s", "l", "a", "c", "k">>,
         <<"n", "o", "t", "i", "o", "n">>,
         <<"f", "i", "g", "m", "a">>,
         <<"p", "o", "s", "t", "m", "a", "n">>,
         <<"i", "n", "s", "o", "m", "n", "i", "a">>,
         <<"v", "s", "c", "o", "d", "e">>,
         <<"i", "n", "t", "e", "l", "l", "i", "j">>,
         <<"v", "i", "m">>,
         <<"l", "i", "n", "u", "x">>,
         <<"b", "a", "s", "h">>,
         <<"p", "o", "w", "e", "r", "s", "h", "e", "l", "l">> >>],
     [category |-> "soft_skill",
      skills |->
      << <<"l", "e", "a", "d", "e", "r", "s", "h", "i", "p">>,
         <<"c", "o", "m", "m", "u", "n", "i", "c", "a", "t", "i", "o", "n">>,
         <<"t", "e", "a", "m", "w", "o", "r", "k">>,
         <<"p", "r", "o", "b", "l", "e", "m", " ", "s", "o", "l", "v", "i", "n", "g">>,
         <<"c", "r", "i", "t", "i", "c", "a", "l", " ", "t", "h", "i", "n", "k", "i", "n", "g">>,
         <<"t", "i", "m", "e", " ", "m", "a", "n", "a", "g", "e", "m", "e", "n", "t">>,
         <<"a", "g", "i", "l", "e">>,
         <<"s", "c", "r", "u", "m">>,
         <<"p", "r", "o", "j", "e", "c", "t", " ", "m", "a", "n", "a", "g", "e", "m", "e", "n", "t">> >>] >>

\* SkillPattern without the assertions on the characters around the skill
\* (a faulty variant)
SkillPattern_NoBoundary(skill) == Str(Lower(skill))

\* rf"(?<![a-zA-Z0-9]){escaped}(?![a-zA-Z0-9])" under re.IGNORECASE: the
\* literal is held lower-cased and searched in the lower-cased text
SkillPattern(skill) ==
  Cat(<<NotBehind(1, In({}, {"lower", "upper", "digit"})),
        Str(Lower(skill)),
        NotAhead(In({}, {"lower", "upper", "digit"}))>>)

\* SkillExtractor.extract(text): the found skills as records of name and
\* category, in the order of the values of found_skills
extract(text) ==
  LET text_lower == Lower(text)
      \* re.search(pattern, text_lower, re.IGNORECASE) is not None; a match
      \* can only begin where the first character of the skill stands
      searched == Lower(text_lower)
      search(skill) ==
        \E i \in {i \in 0..(Len(searched) - Len(skill)) : searched[i + 1] = Lower(skill)[1]} :
           Ends(SkillPattern(skill), searched, i) # <<>>
      \* skill.title(): a letter after a character that is no letter goes
      \* to upper case, every other letter to lower case
      title(skill) ==
        [i \in 1..Len(skill) |->
           IF i > 1 /\ skill[i - 1] \in AsciiLower \cup AsciiUpper
           THEN LowerChar(skill[i]) ELSE UpperChar(skill[i])]
      name(skill) == IF Len(skill) > 3 THEN title(skill) ELSE Upper(skill)
      \* is the skill at place j of category c searched before, under
      \* the same key
      seen(c, j) ==
        \E d \in 1..c : \E i \in 1..Len(SKILL_DATABASE[d].skills) :
           /\ d < c \/ i < j
           /\ Lower(SKILL_DATABASE[d].skills[i]) = Lower(SKILL_DATABASE[c].skills[j])
      \* the places of category c whose skill enters found_skills
      found(c) ==
        SelectSeq([j \in 1..Len(SKILL_DATABASE[c].skills) |-> j],
                  LAMBDA j : search(SKILL_DATABASE[c].skills[j]) /\ ~seen(c, j))
      RECURSIVE Values(_)
      \* the values of found_skills that the categories from c on add
      Values(c) ==
        IF c > Len(SKILL_DATABASE) THEN <<>>
        ELSE [k \in 1..Len(found(c)) |->
                [name |-> name(SKILL_DATABASE[c].skills[found(c)[k]]),
                 category |-> SKILL_DATABASE[c].category]] \o Values(c + 1)
  IN  Values(1)

\* match_requirements that drops a requirement given before (a faulty
\* variant)
match_requirements_Distinct(resume_text, requirements) ==
  LET extracted == extract(resume_text)
      extracted_names == {Lower(extracted[k].name) : k \in 1..Len(extracted)}
      resume_lower == Lower(resume_text)
      first == {k \in 1..Len(requirements) :
                  \A j \in 1..(k - 1) : requirements[j] # requirements[k]}
      is_matched(k) == Lower(requirements[k]) \in extracted_names
                         \/ Contains(Lower(requirements[k]), resume_lower)
      RECURSIVE Take(_, _)
      Take(k, want) ==
        IF k > Len(requirements) THEN <<>>
        ELSE (IF k \in first /\ is_matched(k) = want THEN <<requirements[k]>> ELSE <<>>)
               \o Take(k + 1, want)
      matched == Take(1, TRUE)
  IN  [matched |-> matched,
       missing |-> Take(1, FALSE),
       score |-> IF requirements # <<>>
                 THEN Fraction(Len(matched) * 100, Len(requirements))
                 ELSE Fraction(0, 1)]

\* match_requirements that looks at the extracted skills only (a faulty
\* variant)
match_requirements_NamesOnly(resume_text, requirements) ==
  LET extracted == extract(resume_text)
      extracted_names == {Lower(extracted[k].name) : k \in 1..Len(extracted)}
      resume_lower == Lower(resume_text)
      is_matched(req) == LET req_lower == Lower(req)
                         IN  req_lower \in extracted_names
      matched == SelectSeq(requirements, is_matched)
      missing == SelectSeq(requirements, LAMBDA req : ~is_matched(req))
  IN  [matched |-> matched,
       missing |-> missing,
       score |-> IF requirements # <<>>
                 THEN Fraction(Len(matched) * 100, Len(requirements))
                 ELSE Fraction(0, 1)]

\* SkillExtractor.match_requirements(resume_text, requirements); the score
\* is held exactly
match_requirements(resume_text, requirements) ==
  LET extracted == extract(resume_text)
      extracted_names == {Lower(extracted[k].name) : k \in 1..Len(extracted)}
      resume_lower == Lower(resume_text)
      is_matched(req) == LET req_lower == Lower(req)
                         IN  req_lower \in extracted_names \/ Contains(req_lower, resume_lower)
      matched == SelectSeq(requirements, is_matched)
      missing == SelectSeq(requirements, LAMBDA req : ~is_matched(req))
  IN  [matched |-> matched,
       missing |-> missing,
       score |-> IF requirements # <<>>
                 THEN Fraction(Len(matched) * 100, Len(requirements))
                 ELSE Fraction(0, 1)]

\* the most pieces a resume text is made of
MaxResumeParts == 2

\* the most requirements of a job
MaxRequirements == 4

\* pieces of resume texts, in which a skill stands alone, inside a longer
\* run of letters and digits (going, c++11, r2d2), next to punctuation or
\* Hangul, in several cases and several times; a piece that ends in a
\* skill is followed by one that begins with a letter, a digit or a sign
ResumeParts ==
  << <<"P", "y", "t", "h", "o", "n", ",", " ", "p", "y", "t", "h", "o", "n", ";", " ", "P", "Y", "T", "H", "O", "N">>,
     <<"3", " ", "y", "e", "a", "r", "s", " ", "o", "f", " ", "g", "o", "i", "n", "g", " ", "t", "o", " ", "G", "o">>,
     <<"l", "a", "n", "g", " ", "a", "n", "d", " ", "C", "+", "+", "/", "c", "+", "+", "1", "1", ",", " ">>,
     <<"r", "2", "d", "2", " ", "b", "u", "i", "l", "t", " ", "w", "i", "t", "h", " ", "R">>,
     <<"u", "s", "t", " ", "a", "n", "d", " ", "S", "p", "r", "i", "n", "g", " ", "B", "o", "o", "t", " ", "o", "n", " ", "n", "o", "d", "e", ".", "j", "s", ".">>,
     <<"n", "e", "t", " ", "N", "e", "o", "4", "j", " ", ".", "N", "E", "T", " ">>,
     <<"#peu", "#ro", "#geu", "#rae", "#mi-ng", ":", " ", "J", "a", "v", "a", "#wa", " ", "G", "i", "t", "H", "u", "b", " ", "A", "c", "t", "i", "o", "n", "s">>,
     <<"-", "C", "I", "/", "C", "D", ",", " ", "t", "e", "a", "m", "w", "o", "r", "k">> >>

\* requirement lists: a known skill that is also part of longer words, a
\* known skill, and a requirement that is no known skill
RequirementLists ==
  SeqsUpTo({ <<"G", "o">>, <<"P", "y", "t", "h", "o", "n">>, <<"C", "I", "/", "C", "D">> }, MaxRequirements)

Call_extract ==
  /\ call = "none"
  /\ UNCHANGED <<_cache, calls>>
  /\ \E text \in Texts(ResumeParts, MaxResumeParts) :
       /\ call' = "extract"
       /\ args' = [text |-> text]
       /\ result' = extract(text)

Call_match_requirements ==
  /\ call = "none"
  /\ UNCHANGED <<_cache, calls>>
  /\ \E resume_text \in Texts(ResumeParts, 1) \cup {<<"o", "n", "g", "o", "i", "n", "g", " ", "w", "o", "r", "k", " ", "i", "n", " ", "D", "j", "a", "n", "g", "o">>}, requirements \in RequirementLists :
       /\ call' = "match_requirements"
       /\ args' = [resume_text |-> resume_text, requirements |-> requirements]
       /\ result' = match_requirements(resume_text, requirements)

(***************************************************************************)
(* SectionClassifier (src/analyzer/section_classifier.py)                  *)
(***************************************************************************)
\* the header keywords by section type, in the order of the dictionary
SECTION_KEYWORDS ==
  << [section_type |-> "contact",
      keywords |->
      << <<"c", "o", "n", "t", "a", "c", "t">>,
         <<"p", "e", "r", "s", "o", "n", "a", "l", " ", "i", "n", "f", "o", "r", "m", "a", "t", "i", "o", "n">>,
         <<"#yeo-n", "#ra-g", "#cheo">>,
         <<"#i-n", "#jeo-g", "#sa", "#ha-ng">>,
         <<"p", "e", "r", "s", "o", "n", "a", "l", " ", "d", "e", "t", "a", "i", "l", "s">> >>],
     [section_type |-> "summary",
      keywords |->
      << <<"s", "u", "m", "m", "a", "r", "y">>,
         <<"p", "r", "o", "f", "e", "s", "s", "i", "o", "n", "a", "l", " ", "s", "u", "m", "m", "a", "r", "y">>,
         <<"o", "b", "j", "e", "c", "t", "i", "v", "e">>,
         <<"c", "a", "r", "e", "e", "r", " ", "o", "b", "j", "e", "c", "t", "i", "v", "e">>,
         <<"p", "r", "o", "f", "i", "l", "e">>,
         <<"a", "b", "o", "u", "t">>,
         <<"#ja", "#gi", "#so", "#gae">>,
         <<"#yo", "#ya-g">>,
         <<"#so", "#gae">> >>],
     [section_type |-> "experience",
      keywords |->
      << <<"e", "x", "p", "e", "r", "i", "e", "n", "c", "e">>,
         <<"w", "o", "r", "k", " ", "e", "x", "p", "e", "r", "i", "e", "n", "c", "e">>,
         <<"p", "r", "o", "f", "e", "s", "s", "i", "o", "n", "a", "l", " ", "e", "x", "p", "e", "r", "i", "e", "n", "c", "e">>,
         <<"e", "m", "p", "l", "o", "y", "m", "e", "n", "t">>,
         <<"e", "m", "p", "l", "o", "y", "m", "e", "n", "t", " ", "h", "i", "s", "t", "o", "r", "y">>,
         <<"w", "o", "r", "k", " ", "h", "i", "s", "t", "o", "r", "y">>,
         <<"c", "a", "r", "e", "e", "r", " ", "h", "i", "s", "t", "o", "r", "y">>,
         <<"#gyeo-ng", "#ryeo-g">>,
         <<"#gyeo-ng", "#ryeo-g", "#sa", "#ha-ng">>,
         <<"#ji-g", "#mu", "#gyeo-ng", "#heo-m">> >>],
     [section_type |-> "education",
      keywords |->
      << <<"e", "d", "u", "c", "a", "t", "i", "o", "n">>,
         <<"a", "c", "a", "d", "e", "m", "i", "c">>,
         <<"a", "c", "a", "d", "e", "m", "i", "c", " ", "b", "a", "c", "k", "g", "r", "o", "u", "n", "d">>,
         <<"e", "d", "u", "c", "a", "t", "i", "o", "n", "a", "l", " ", "b", "a", "c", "k", "g", "r", "o", "u", "n", "d">>,
         <<"#ha-g", "#ryeo-g">>,
         <<"#ha-g", "#ryeo-g", "#sa", "#ha-ng">> >>],
     [section_type |-> "skills",
      keywords |->
      << <<"s", "k", "i", "l", "l", "s">>,
         <<"t", "e", "c", "h", "n", "i", "c", "a", "l", " ", "s", "k", "i", "l", "l", "s">>,
         <<"c", "o", "r", "e", " ", "c", "o", "m", "p", "e", "t", "e", "n", "c", "i", "e", "s">>,
         <<"c", "o", "m", "p", "e", "t", "e", "n", "c", "i", "e", "s">>,
         <<"t", "e", "c", "h", "n", "o", "l", "o", "g", "i", "e", "s">>,
         <<"t", "e", "c", "h", " ", "s", "t", "a", "c", "k">>,
         <<"#gi", "#su-l">>,
         <<"#gi", "#su-l", "#seu", "#tae-g">>,
         <<"#bo", "#yu", "#gi", "#su-l">>,
         <<"#seu", "#ki-l">> >>],
     [section_type |-> "projects",
      keywords |->
      << <<"p", "r", "o", "j", "e", "c", "t", "s">>,
         <<"p", "e", "r", "s", "o", "n", "a", "l", " ", "p", "r", "o", "j", "e", "c", "t", "s">>,
         <<"#peu", "#ro", "#je-g", "#teu">> >>],
     [section_type |-> "certifications",
      keywords |->
      << <<"c", "e", "r", "t", "i", "f", "i", "c", "a", "t", "i", "o", "n", "s">>,
         <<"c", "e", "r", "t", "i", "f", "i", "c", "a", "t", "e", "s">>,
         <<"l", "i", "c", "e", "n", "s", "e", "s">>,
         <<"#ja", "#gyeo-g", "#jeu-ng">> >>] >>

\* classify with the section types tried from the last to the first (a
\* faulty variant)
classify_LastType(text) ==
  LET text_lower == Strip(Lower(text))
      hits == {t \in 1..Len(SECTION_KEYWORDS) :
                 \E k \in 1..Len(SECTION_KEYWORDS[t].keywords) :
                    Contains(SECTION_KEYWORDS[t].keywords[k], text_lower)}
  IN  IF hits = {} THEN "unknown"
      ELSE SECTION_KEYWORDS[CHOOSE t \in hits : \A u \in hits : u <= t].section_type

\* SectionClassifier.classify(text)
classify(text) ==
  LET text_lower == Strip(Lower(text))
      hits == {t \in 1..Len(SECTION_KEYWORDS) :
                 \E k \in 1..Len(SECTION_KEYWORDS[t].keywords) :
                    Contains(SECTION_KEYWORDS[t].keywords[k], text_lower)}
  IN  IF hits = {} THEN "unknown"
      ELSE SECTION_KEYWORDS[CHOOSE t \in hits : \A u \in hits : t <= u].section_type

\* SectionContent without the trimming (a faulty variant)
SectionContent_Untrimmed(current_content) ==
  LET RECURSIVE join(_)
      join(k) ==
        IF k > Len(current_content) THEN <<>>
        ELSE (IF k > 1 THEN <<"\n">> ELSE <<>>) \o current_content[k] \o join(k + 1)
  IN  join(1)

\* "\n".join(current_content).strip()
SectionContent(current_content) ==
  LET RECURSIVE join(_)
      join(k) ==
        IF k > Len(current_content) THEN <<>>
        ELSE (IF k > 1 THEN <<"\n">> ELSE <<>>) \o current_content[k] \o join(k + 1)
  IN  Strip(join(1))

\* SectionClassifier.classify_document(lines); "None" stands for no
\* current section
classify_document(lines) ==
  LET save(sections, current_section, current_content) ==
        Append(sections, [type |-> current_section,
                          content |-> SectionContent(current_content)])
      RECURSIVE Loop(_, _, _, _)
      \* `sections` after the lines from place i on and the saving of the
      \* last section
      Loop(i, sections, current_section, current_content) ==
        IF i > Len(lines)
        THEN IF current_section # "None" /\ current_content # <<>>
             THEN save(sections, current_section, current_content)
             ELSE sections
        ELSE LET line == lines[i]
                 line_stripped == Strip(line)
                 section_type == classify(line_stripped)
             IN  IF line_stripped = <<>> /\ current_section = "None"
                 THEN Loop(i + 1, sections, current_section, current_content)
                 ELSE IF section_type # "unknown"
                 THEN Loop(i + 1,
                           IF current_section # "None"
                           THEN save(sections, current_section, current_content)
                           ELSE sections,
                           section_type, <<>>)
                 ELSE IF current_section # "None"
                 THEN Loop(i + 1, sections, current_section, Append(current_content, line))
                 ELSE Loop(i + 1, sections, current_section, current_content)
  IN  Loop(1, <<>>, "None", <<>>)

\* the most lines of a document
MaxLines == 5

\* the documents: at most MaxLines of these lines, in this order.  There
\* are lines with no keyword, blank lines, headers, a line with the
\* keywords of two section types (Skills ahead of Contact in the line,
\* Contact ahead of Skills in the order of the types), a body line that
\* holds a keyword (so that it is a header), and lines with blanks around
Documents ==
  LET DocumentLines ==
        << <<"J", "o", "h", "n", " ", "D", "o", "e">>,
           <<>>,
           <<"W", "o", "r", "k", " ", "E", "x", "p", "e", "r", "i", "e", "n", "c", "e">>,
           <<"D", "e", "v", " ", "a", "t", " ", "X">>,
           <<>>,
           <<"E", "d", "u", "c", "a", "t", "i", "o", "n">>,
           <<"B", "S", " ", "C", "S">>,
           <<" ", " ", "S", "k", "i", "l", "l", "s", " ", "a", "n", "d", " ", "C", "o", "n", "t", "a", "c", "t", " ", " ">>,
           <<" ", "P", "y", "t", "h", "o", "n", ",", " ", "5", " ", "y", "e", "a", "r", "s", " ">>,
           <<"#gi", "#su-l", "#seu", "#tae-g", " ", "#yo", "#ya-g">>,
           <<"E", "x", "p", "e", "r", "i", "e", "n", "c", "e", "d", " ", "i", "n", " ", "S", "Q", "L">> >>
  IN  Texts([k \in 1..Len(DocumentLines) |-> <<DocumentLines[k]>>], MaxLines)

Call_classify ==
  /\ call = "none"
  /\ UNCHANGED <<_cache, calls>>
  /\ \E lines \in Documents : \E i \in 1..Len(lines) :
       /\ call' = "classify"
       /\ args' = [text |-> lines[i]]
       /\ result' = classify(lines[i])

Call_classify_document ==
  /\ call = "none"
  /\ UNCHANGED <<_cache, calls>>
  /\ \E lines \in Documents :
       /\ call' = "classify_document"
       /\ args' = [lines |-> lines]
       /\ result' = classify_document(lines)

\* the resume analyzers: SkillExtractor and SectionClassifier
SpecResume ==
  Init /\ [][\/ Call_extract
             \/ Call_match_requirements
             \/ Call_classify
             \/ Call_classify_document]_vars

(***************************************************************************)
(* Properties of the resume analyzers (checked under SpecResume)           *)
(***************************************************************************)
\* C16: SkillExtractor.extract reports a known skill only when its surface
\* form occurs in the text, case-insensitively, with no ASCII letter or
\* digit right before or after the occurrence; a skill with a sign in it
\* (such as c++) is reported when it occurs that way; no skill is reported
\* twice.
C16_SkillsAtBoundaries ==
  call = "extract" =>
    LET text == args.text
        alnum == AsciiLower \cup AsciiUpper \cup AsciiDigit
        occurs(skill) ==
          \E i \in 0..(Len(text) - Len(skill)) :
             /\ \A j \in 1..Len(skill) : LowerChar(text[i + j]) = skill[j]
             /\ i = 0 \/ text[i] \notin alnum
             /\ i + Len(skill) = Len(text) \/ text[i + Len(skill) + 1] \notin alnum
        reported(skill) == \E k \in 1..Len(result) : Lower(result[k].name) = skill
    IN  /\ \A k \in 1..Len(result) :
             \E c \in 1..Len(SKILL_DATABASE) : \E j \in 1..Len(SKILL_DATABASE[c].skills) :
                /\ Lower(result[k].name) = SKILL_DATABASE[c].skills[j]
                /\ result[k].category = SKILL_DATABASE[c].category
                /\ occurs(SKILL_DATABASE[c].skills[j])
        /\ \A c \in 1..Len(SKILL_DATABASE) : \A j \in 1..Len(SKILL_DATABASE[c].skills) :
             LET skill == SKILL_DATABASE[c].skills[j]
             IN  (occurs(skill) /\ \E i \in 1..Len(skill) : skill[i] \notin alnum)
                   => reported(skill)
        /\ \A j, k \in 1..Len(result) :
             j # k => Lower(result[j].name) # Lower(result[k].name)

\* C16 witness: a text that holds "go" only inside longer runs of letters
\* and "c++" both delimited and followed by a digit: C++ is reported, GO
\* is not
C16_Witness ==
  /\ call = "extract"
  /\ Contains(<<"g", "o">>, Lower(args.text))
  /\ Contains(<<"c", "+", "+", "1">>, Lower(args.text))
  /\ \E k \in 1..Len(result) : result[k].name = <<"C", "+", "+">>
  /\ \A k \in 1..Len(result) : result[k].name # <<"G", "O">>

\* C17: SkillExtractor.match_requirements returns matched and missing
\* that are disjoint, together hold every requirement as often as it was
\* given, each in the order of the input; score is
\* len(matched) / len(requirements) * 100 (75 for 3 of 4); for no
\* requirement the score is 0 and matched and missing are empty.
C17_MatchPartition ==
  call = "match_requirements" =>
    LET requirements == args.requirements
        n == Len(requirements)
        RECURSIVE Sub(_, _)
        \* the requirements at the places of I from place k on
        Sub(I, k) ==
          IF k > n THEN <<>>
          ELSE (IF k \in I THEN <<requirements[k]>> ELSE <<>>) \o Sub(I, k + 1)
    IN  /\ \A j \in 1..Len(result.matched), k \in 1..Len(result.missing) :
             result.matched[j] # result.missing[k]
        /\ \E I \in SUBSET (1..n) :
             /\ result.matched = Sub(I, 1)
             /\ result.missing = Sub((1..n) \ I, 1)
        /\ n > 0 => result.score.num * n = result.score.den * Len(result.matched) * 100
        /\ (n = 4 /\ Len(result.matched) = 3) => result.score = [num |-> 75, den |-> 1]
        /\ n = 0 => /\ result.score.num = 0
                    /\ result.matched = <<>>
                    /\ result.missing = <<>>

\* C17 witness: 3 of 4 requirements matched, one of them given twice; the
\* score is 75
C17_Witness ==
  /\ call = "match_requirements"
  /\ Len(args.requirements) = 4
  /\ Len(result.matched) = 3
  /\ Len(result.missing) = 1
  /\ \E j, k \in 1..3 : j < k /\ result.matched[j] = result.matched[k]
  /\ result.score = [num |-> 75, den |-> 1]

\* C18: SectionClassifier.classify returns the first section type, in the
\* order contact, summary, experience, education, skills, projects,
\* certifications, one of whose keywords is contained in the lower-cased,
\* trimmed line, and unknown when there is none, wherever in the line the
\* keywords stand.
C18_FirstTypeInOrder ==
  call = "classify" =>
    LET line == Strip(Lower(args.text))
        order == <<"contact", "summary", "experience", "education", "skills",
                   "projects", "certifications">>
        has(type) ==
          \E t \in 1..Len(SECTION_KEYWORDS) :
             /\ SECTION_KEYWORDS[t].section_type = type
             /\ \E k \in 1..Len(SECTION_KEYWORDS[t].keywords) :
                   Contains(SECTION_KEYWORDS[t].keywords[k], line)
    IN  IF \A p \in 1..Len(order) : ~has(order[p])
        THEN result = "unknown"
        ELSE \E p \in 1..Len(order) :
                /\ result = order[p]
                /\ has(order[p])
                /\ \A q \in 1..(p - 1) : ~has(order[q])

\* C18 witness: a line in which a keyword of skills stands ahead of one of
\* contact is classified as contact
C18_Witness ==
  /\ call = "classify"
  /\ result = "contact"
  /\ \E i \in 1..Len(args.text) :
        /\ Contains(<<"s", "k", "i", "l", "l", "s">>, SubSeq(Lower(args.text), 1, i))
        /\ ~Contains(<<"c", "o", "n", "t", "a", "c", "t">>, SubSeq(Lower(args.text), 1, i))

\* the places of the header lines of the call's document, in order
Headers ==
  LET lines == args.lines
      RECURSIVE From(_)
      From(i) ==
        IF i > Len(lines) THEN <<>>
        ELSE (IF classify(lines[i]) # "unknown" THEN <<i>> ELSE <<>>) \o From(i + 1)
  IN  From(1)

\* C19 (as amended): in the result of classify_document the k-th section
\* belongs to the k-th header line, has the type of that line, and its
\* content is its body without the header line: the lines after the header
\* up to the line before the next header (or the end of the document),
\* joined by line breaks and trimmed.  Every header gives a section,
\* except a last header that is the last line.
C19_ContentIsBody ==
  call = "classify_document" =>
    LET lines == args.lines
        headers == Headers
        n == Len(headers)
        emitted == IF n > 0 /\ headers[n] = Len(lines) THEN n - 1 ELSE n
        RECURSIVE Body(_, _)
        \* lines[a], ..., lines[b] joined by line breaks
        Body(a, b) ==
          IF a > b THEN <<>>
          ELSE lines[a] \o (IF a < b THEN <<"\n">> ELSE <<>>) \o Body(a + 1, b)
    IN  /\ Len(result) = emitted
        /\ \A k \in 1..Len(result) :
             /\ result[k].type = classify(lines[headers[k]])
             /\ result[k].content =
                  Strip(Body(headers[k] + 1,
                             IF k < n THEN headers[k + 1] - 1 ELSE Len(lines)))

\* C19 witness: the lines Work Experience, Dev at X, (blank), Education,
\* BS CS give two sections, experience and education, that hold their
\* bodies
C19_Witness ==
  /\ call = "classify_document"
  /\ args.lines = << <<"W", "o", "r", "k", " ", "E", "x", "p", "e", "r", "i", "e", "n", "c", "e">>, <<"D", "e", "v", " ", "a", "t", " ", "X">>, <<>>, <<"E", "d", "u", "c", "a", "t", "i", "o", "n">>, <<"B", "S", " ", "C", "S">> >>
  /\ result = << [type |-> "experience", content |-> <<"D", "e", "v", " ", "a", "t", " ", "X">>],
                 [type |-> "education", content |-> <<"B", "S", " ", "C", "S">>] >>

\* C19 (as claimed): every section's content contains its own header line,
\* followed by its body.
C19_ContentHoldsHeader ==
  call = "classify_document" =>
    \A k \in 1..Len(result) :
       \E a \in 0..Len(result[k].content) :
          /\ SubSeq(result[k].content, 1, a) = Strip(args.lines[Headers[k]])
          /\ a > 0

\* C20: classify_document emits the text ahead of the first header line as
\* a leading section of its own, and for a document without a header line
\* it returns one section that holds the whole input.
C20_LeadingSection ==
  call = "classify_document" =>
    LET lines == args.lines
        headers == Headers
        first == IF headers = <<>> THEN Len(lines) + 1 ELSE headers[1]
        leading == {i \in 1..(first - 1) : Strip(lines[i]) # <<>>}
    IN  /\ leading # {} =>
             /\ Len(result) >= 1
             /\ \A i \in leading : Contains(Strip(lines[i]), result[1].content)
        /\ (headers = <<>> /\ leading # {}) => Len(result) = 1

(***************************************************************************)
(* Properties of the checks for abstract expressions, results and          *)
(* organization names (checked under SpecChecks)                           *)
(***************************************************************************)
SpecChecks ==
  Init /\ [][\/ Call_check_abstract_expressions
             \/ Call_check_missing_results
             \/ Call_check_organization_name]_vars

\* C21: _check_organization_name returns at most one warning; it returns
\* one exactly when the answer holds, in any letter case, an alias of a
\* table entry whose code is not the declared code in upper case; the
\* warning is of type wrong_organization and high severity, and its
\* detected text is the leftmost alias, as written in the answer, of the
\* first such entry of the table.
C21_OneWrongOrganization ==
  call = "_check_organization_name" =>
    LET answer == args.answer
        lower == Lower(answer)
        \* the words of a pattern made of literals, sequences and choices
        RECURSIVE Words(_)
        Words(p) ==
          CASE p.t = "str" -> {p.s}
            [] p.t = "alt" -> UNION {Words(p.rs[j]) : j \in 1..Len(p.rs)}
            [] p.t = "cat" ->
                 IF Len(p.rs) = 0 THEN {<<>>}
                 ELSE {v \o w : v \in Words(p.rs[1]), w \in Words(Cat(Tail(p.rs)))}
        aliases(k) == Words(_ORG_NAME_PATTERNS[k].p)
        \* the offsets at which an alias of entry k stands
        at(k) == {i \in 0..Len(answer) :
                    \E a \in aliases(k) :
                       /\ i + Len(a) <= Len(answer)
                       /\ SubSeq(lower, i + 1, i + Len(a)) = a}
        others == {k \in 1..Len(_ORG_NAME_PATTERNS) :
                     /\ Lower(_ORG_NAME_PATTERNS[k].code) # Lower(args.organization)
                     /\ at(k) # {}}
    IN  /\ Len(result) <= 1
        /\ Len(result) = 1 <=> others # {}
        /\ Len(result) = 1 =>
             LET k == CHOOSE k \in others : \A o \in others : k <= o
                 i == CHOOSE i \in at(k) : \A o \in at(k) : i <= o
                 text == result[1].detected_text
             IN  /\ result[1].type = "wrong_organization"
                 /\ result[1].severity = "high"
                 /\ Lower(text) \in aliases(k)
                 /\ text = SubSeq(answer, i + 1, i + Len(text))

\* C21 witness: the declared organization is kwater and the answer holds
\* an alias of KWATER and, after an alias of the second table entry, an
\* alias of the first: the warning names the alias of the first entry
C21_Witness ==
  /\ call = "_check_organization_name"
  /\ args.organization = <<"k", "w", "a", "t", "e", "r">>
  /\ Contains(<<"k", "-", "w", "a", "t", "e", "r">>, Lower(args.answer))
  /\ Contains(<<"#ga", "#seu", "#go-ng", "#sa", "#wa", " ", "#ha-n", "#jeo-n">>, args.answer)
  /\ Len(result) = 1
  /\ result[1].detected_text = <<"#ha-n", "#jeo-n">>

\* C22: _check_missing_results returns exactly one warning, of type
\* missing_result and medium severity, when the answer holds neither a
\* number followed by a unit nor a result expression, and no warning when
\* it holds either.
C22_MissingResult ==
  call = "_check_missing_results" =>
    LET answer == args.answer
        units == {_NUMBER_PATTERN.rs[3].rs[j].s : j \in 1..Len(_NUMBER_PATTERN.rs[3].rs)}
        number == \E i \in 1..Len(answer) :
                     /\ answer[i] \in AsciiDigit
                     /\ \E u \in units :
                           /\ i + Len(u) <= Len(answer)
                           /\ SubSeq(answer, i + 1, i + Len(u)) = u
        expression == \E k \in 1..Len(_RESULT_PATTERNS) : Search(_RESULT_PATTERNS[k], answer)
    IN  IF ~number /\ ~expression
        THEN /\ Len(result) = 1
             /\ result[1].type = "missing_result"
             /\ result[1].severity = "medium"
        ELSE result = <<>>

\* C22 witness: an answer with a result expression and no number with a
\* unit (its number is followed by a blank) gets no warning
C22_Witness ==
  /\ call = "_check_missing_results"
  /\ Contains(<<"#seo-ng", "#gwa", "#reu-l">>, args.answer)
  /\ Contains(<<"5", " ", "#myeo-ng">>, args.answer)
  /\ ~Search(_NUMBER_PATTERN, args.answer)
  /\ result = <<>>

\* C23: _check_abstract_expressions returns one warning, of type
\* abstract_expression and medium severity, for each abstract phrase that
\* the answer holds, in the order of the phrase list, and at most 3: for
\* more than 3 phrases, the warnings are for the first 3 of them in the
\* order of the list.
C23_FirstThreeAbstract ==
  call = "_check_abstract_expressions" =>
    LET present == {k \in 1..Len(abstract_patterns) :
                      Contains(abstract_patterns[k].phrase, args.answer)}
        \* the number of phrases present up to place k of the list
        rank(k) == Cardinality({j \in present : j <= k})
    IN  /\ Len(result) = (IF Cardinality(present) < 3 THEN Cardinality(present) ELSE 3)
        /\ \A n \in 1..Len(result) :
             /\ result[n].type = "abstract_expression"
             /\ result[n].severity = "medium"
             /\ \E k \in present :
                   /\ rank(k) = n
                   /\ result[n].detected_text = abstract_patterns[k].phrase

\* C23 witness: an answer with more than 3 of the phrases, in which a
\* phrase that is late in the list stands ahead of the others: 3 warnings,
\* none of them for that phrase
C23_Witness ==
  /\ call = "_check_abstract_expressions"
  /\ Cardinality({k \in 1..Len(abstract_patterns) :
                    Contains(abstract_patterns[k].phrase, args.answer)}) > 3
  /\ Len(result) = 3
  /\ Contains(<<"#da", "#ya-ng", "#ha-n", " ", "#gyeo-ng", "#heo-m">>, args.answer)
  /\ \A n \in 1..3 : result[n].detected_text # <<"#da", "#ya-ng", "#ha-n", " ", "#gyeo-ng", "#heo-m">>

(***************************************************************************)
(* FeedbackAnalyzer.calculate_length_check                                 *)
(***************************************************************************)
\* the bounds of the answers and limits of calculate_length_check
MaxAnswerChars == 12
MaxLength == 16

\* calculate_length_check with 100 percent counted as over (a faulty variant)
calculate_length_check_Inclusive(answer, max_length) ==
  LET current == Len(answer)
      percentage == IF max_length > 0 THEN Fraction(current * 100, max_length)
                    ELSE Fraction(0, 1)
  IN  [current |-> current, max |-> max_length, percentage |-> percentage,
       status |-> IF ~FractionLess(percentage, Fraction(100, 1)) THEN "over"
                  ELSE IF ~FractionLess(percentage, Fraction(70, 1)) THEN "optimal"
                  ELSE "short"]

\* calculate_length_check(answer, max_length): the percentage is a fraction,
\* rounded to one decimal place (a half goes to the even neighbour)
calculate_length_check(answer, max_length) ==
  LET current == Len(answer)
      percentage == IF max_length > 0 THEN Fraction(current * 100, max_length)
                    ELSE Fraction(0, 1)
      status == IF FractionLess(Fraction(100, 1), percentage) THEN "over"
                ELSE IF ~FractionLess(percentage, Fraction(70, 1)) THEN "optimal"
                ELSE "short"
      \* round(percentage, 1)
      q == (percentage.num * 10) \div percentage.den
      r == (percentage.num * 10) % percentage.den
      tenths == IF 2 * r > percentage.den \/ (2 * r = percentage.den /\ q % 2 = 1)
                THEN q + 1 ELSE q
  IN  [current |-> current, max |-> max_length,
       percentage |-> Fraction(tenths, 10), status |-> status]

Call_calculate_length_check ==
  /\ call = "none"
  /\ UNCHANGED <<_cache, calls>>
  /\ \E n \in 0..MaxAnswerChars, max_length \in -1..MaxLength :
       LET text == <<"#jeo", "#neu-n", " ", "2", "#nyeo-n", "#ga-n", " ", "D", "a", "t", "a", " ", "#bu-n", "#seo-g", "#eu-l", " ", "#ma-t", "#a", " ", "#seo-ng", "#gwa", "#reu-l", " ", "#nae-ss", "#seu-b", "#ni", "#da", ".">>
           answer == SubSeq(text, 1, n)
       IN  /\ call' = "calculate_length_check"
           /\ args' = [answer |-> answer, max_length |-> max_length]
           /\ result' = calculate_length_check(answer, max_length)

(***************************************************************************)
(* The response of the LLM.  A JSON value is a record with its type t:     *)
(* [t |-> "null"], [t |-> "bool", b], [t |-> "int", n], [t |-> "str", s],  *)
(* [t |-> "list", xs] and [t |-> "dict", ks, vs] (keys and their values,   *)
(* in the order of the text)                                               *)
(***************************************************************************)
\* json.loads(s) for a text without escapes in its strings and with whole
\* numbers only: [ok |-> TRUE, v |-> the value], or [ok |-> FALSE] where
\* json.loads raises JSONDecodeError
json_loads(s) ==
  LET n == Len(s)
      Space == {" ", "\t", "\n", "\r"}
      Digits == <<"0", "1", "2", "3", "4", "5", "6", "7", "8", "9">>
      IsDigit(c) == \E d \in 1..10 : Digits[d] = c
      fail == [ok |-> FALSE]
      \* the first place from i on that holds no white space
      skip(i) == CHOOSE j \in i..(n + 1) :
                   /\ \A k \in i..(j - 1) : s[k] \in Space
                   /\ (j = n + 1 \/ s[j] \notin Space)
      at(i, c) == i <= n /\ s[i] = c
      word(i, w) == i + Len(w) - 1 <= n /\ SubSeq(s, i, i + Len(w) - 1) = w
      \* the string whose opening quote is at place i
      string(i) ==
        LET ends == {j \in (i + 1)..n : s[j] = "\""}
            j == CHOOSE j \in ends : \A e \in ends : j <= e
        IN  IF ends = {} THEN fail
            ELSE IF \E k \in (i + 1)..(j - 1) : s[k] \in {"\\", "\n", "\t", "\r"} THEN fail
            ELSE [ok |-> TRUE, v |-> [t |-> "str", s |-> SubSeq(s, i + 1, j - 1)], i |-> j + 1]
      \* the whole number at place i: -?(0|[1-9][0-9]*)
      number(i) ==
        LET first == IF s[i] = "-" THEN i + 1 ELSE i
            run == CHOOSE j \in first..(n + 1) :
                     /\ \A k \in first..(j - 1) : IsDigit(s[k])
                     /\ (j = n + 1 \/ ~IsDigit(s[j]))
            last == IF at(first, "0") THEN first ELSE run - 1
            RECURSIVE val(_)
            val(k) == IF k < first THEN 0
                      ELSE val(k - 1) * 10 + (CHOOSE d \in 1..10 : Digits[d] = s[k]) - 1
        IN  IF run = first THEN fail
            ELSE [ok |-> TRUE,
                  v |-> [t |-> "int", n |-> IF s[i] = "-" THEN 0 - val(last) ELSE val(last)],
                  i |-> last + 1]
      RECURSIVE value(_), members(_, _, _), elements(_, _)
      \* the value at place i, which holds no white space
      value(i) ==
        IF i > n THEN fail
        ELSE IF s[i] = "\"" THEN string(i)
        ELSE IF s[i] = "{" THEN
          LET j == skip(i + 1)
          IN  IF at(j, "}")
              THEN [ok |-> TRUE, v |-> [t |-> "dict", ks |-> <<>>, vs |-> <<>>], i |-> j + 1]
              ELSE members(j, <<>>, <<>>)
        ELSE IF s[i] = "[" THEN
          LET j == skip(i + 1)
          IN  IF at(j, "]")
              THEN [ok |-> TRUE, v |-> [t |-> "list", xs |-> <<>>], i |-> j + 1]
              ELSE elements(j, <<>>)
        ELSE IF word(i, <<"t", "r", "u", "e">>)
        THEN [ok |-> TRUE, v |-> [t |-> "bool", b |-> TRUE], i |-> i + 4]
        ELSE IF word(i, <<"f", "a", "l", "s", "e">>)
        THEN [ok |-> TRUE, v |-> [t |-> "bool", b |-> FALSE], i |-> i + 5]
        ELSE IF word(i, <<"n", "u", "l", "l">>)
        THEN [ok |-> TRUE, v |-> [t |-> "null"], i |-> i + 4]
        ELSE IF s[i] = "-" \/ IsDigit(s[i]) THEN number(i)
        ELSE fail
      \* the rest of an object from the key at place i on
      members(i, ks, vs) ==
        IF ~at(i, "\"") THEN fail
        ELSE LET key == string(i)
                 colon == skip(key.i)
                 v == value(skip(colon + 1))
                 e == skip(v.i)
             IN  IF ~key.ok THEN fail
                 ELSE IF ~at(colon, ":") THEN fail
                 ELSE IF ~v.ok THEN fail
                 ELSE IF at(e, ",")
                 THEN members(skip(e + 1), Append(ks, key.v.s), Append(vs, v.v))
                 ELSE IF at(e, "}")
                 THEN [ok |-> TRUE,
                       v |-> [t |-> "dict", ks |-> Append(ks, key.v.s), vs |-> Append(vs, v.v)],
                       i |-> e + 1]
                 ELSE fail
      \* the rest of an array from the value at place i on
      elements(i, xs) ==
        LET v == value(i)
            e == skip(v.i)
        IN  IF ~v.ok THEN fail
            ELSE IF at(e, ",") THEN elements(skip(e + 1), Append(xs, v.v))
            ELSE IF at(e, "]")
            THEN [ok |-> TRUE, v |-> [t |-> "list", xs |-> Append(xs, v.v)], i |-> e + 1]
            ELSE fail
      top == value(skip(1))
  IN  IF top.ok /\ skip(top.i) = n + 1 THEN [ok |-> TRUE, v |-> top.v] ELSE fail

\* responses of the LLM: texts that are no JSON (empty, prose, JSON in a
\* code fence, cut off, with a trailing comma), JSON values that are no
\* object, and objects: empty, complete, with an overall_score out of range,
\* with values of its own for length_check and warnings, with strengths
\* that are no list
LLMResponses ==
  { <<>>,
    <<"#joe", "#so-ng", "#ha-b", "#ni", "#da", ".", " ", "#bu-n", "#seo-g", "#ha-l", " ", "#su", " ", "#eo-bs", "#seu-b", "#ni", "#da", ".">>,
    <<"'", "'", "'", "j", "s", "o", "n", "\n", "{", "\"", "o", "v", "e", "r", "a", "l", "l", "_", "s", "c", "o", "r", "e", "\"", ":", " ", "8", "0", "}", "\n", "'", "'", "'">>,
    <<"{", "\"", "o", "v", "e", "r", "a", "l", "l", "_", "s", "c", "o", "r", "e", "\"", ":", " ", "8", "0", ",", " ", "\"", "s", "t", "r", "e", "n", "g", "t", "h", "s", "\"", ":", " ", "[", "{", "\"", "t", "i", "t", "l", "e", "\"", ":", " ", "\"", "#gyeo-ng", "#heo-m">>,
    <<"{", "\"", "o", "v", "e", "r", "a", "l", "l", "_", "s", "c", "o", "r", "e", "\"", ":", " ", "8", "0", ",", "}">>,
    <<"[", "]">>,
    <<"n", "u", "l", "l">>,
    <<" ", "{", "}", " ">>,
    <<"{", "\"", "o", "v", "e", "r", "a", "l", "l", "_", "s", "c", "o", "r", "e", "\"", ":", " ", "8", "5", ",", " ", "\"", "o", "v", "e", "r", "a", "l", "l", "_", "g", "r", "a", "d", "e", "\"", ":", " ", "\"", "#u", "#su", "\"", ",", " ", "\"", "o", "v", "e", "r", "a", "l", "l", "_", "s", "u", "m", "m", "a", "r", "y", "\"", ":", " ", "\"", "#jo-h", "#seu-b", "#ni", "#da", ".", "\"", ",", " ", "\"", "s", "t", "r", "e", "n", "g", "t", "h", "s", "\"", ":", " ", "[", "{", "\"", "t", "i", "t", "l", "e", "\"", ":", " ", "\"", "#gyeo-ng", "#heo-m", "\"", ",", " ", "\"", "s", "c", "o", "r", "e", "\"", ":", " ", "8", ",", " ", "\"", "q", "u", "o", "t", "e", "\"", ":", " ", "\"", "#seo-ng", "#gwa", "\"", ",", " ", "\"", "e", "v", "a", "l", "u", "a", "t", "i", "o", "n", "\"", ":", " ", "\"", "#gu", "#che", "#jeo-g", "\"", "}", "]", ",", " ", "\"", "i", "m", "p", "r", "o", "v", "e", "m", "e", "n", "t", "s", "\"", ":", " ", "[", "{", "\"", "t", "i", "t", "l", "e", "\"", ":", " ", "\"", "#su", "#chi", "\"", "}", "]", ",", " ", "\"", "k", "e", "y", "w", "o", "r", "d", "_", "a", "n", "a", "l", "y", "s", "i", "s", "\"", ":", " ", "{", "\"", "f", "o", "u", "n", "d", "_", "k", "e", "y", "w", "o", "r", "d", "s", "\"", ":", " ", "[", "\"", "#go", "#gae-g", "\"", "]", ",", " ", "\"", "m", "i", "s", "s", "i", "n", "g", "_", "k", "e", "y", "w", "o", "r", "d", "s", "\"", ":", " ", "[", "]", ",", " ", "\"", "m", "a", "t", "c", "h", "_", "r", "a", "t", "e", "\"", ":", " ", "5", "0", "}", ",", " ", "\"", "i", "n", "t", "e", "r", "v", "i", "e", "w", "_", "q", "u", "e", "s", "t", "i", "o", "n", "s", "\"", ":", " ", "[", "{", "\"", "q", "u", "e", "s", "t", "i", "o", "n", "\"", ":", " ", "\"", "#ji", "#wo-n", " ", "#do-ng", "#gi", "#neu-n", "?", "\"", ",", " ", "\"", "i", "s", "_", "f", "r", "e", "q", "u", "e", "n", "t", "\"", ":", " ", "t", "r", "u", "e", ",", " ", "\"", "y", "e", "a", "r", "s", "\"", ":", " ", "[", "2", "0", "2", "3", ",", " ", "2", "0", "2", "4", "]", ",", " ", "\"", "a", "n", "s", "w", "e", "r", "_", "t", "i", "p", "s", "\"", ":", " ", "\"", "#du", "#gwa-l", "#si-g", "\"", "}", "]", ",", " ", "\"", "m", "o", "d", "e", "l", "_", "a", "n", "s", "w", "e", "r", "\"", ":", " ", "\"", "#jeo", "#neu-n", " ", "#seo-ng", "#ja-ng", "#hae-ss", "#seu-b", "#ni", "#da", ".", " ", "#i", "#reo", "#ha-n", " ", "#gyeo-ng", "#heo-m", "#eu", "#ro", " ", "#gi", "#yeo", "#ha", "#ge-ss", "#seu-b", "#ni", "#da", ".", " ", "\"", ",", " ", "\"", "m", "o", "d", "e", "l", "_", "a", "n", "s", "w", "e", "r", "_", "l", "e", "n", "g", "t", "h", "\"", ":", " ", "9", "9", "9", "}">>,
    <<"{", "\"", "o", "v", "e", "r", "a", "l", "l", "_", "s", "c", "o", "r", "e", "\"", ":", " ", "1", "5", "0", "}">>,
    <<"{", "\"", "o", "v", "e", "r", "a", "l", "l", "_", "s", "c", "o", "r", "e", "\"", ":", " ", "7", "0", ",", " ", "\"", "l", "e", "n", "g", "t", "h", "_", "c", "h", "e", "c", "k", "\"", ":", " ", "{", "\"", "c", "u", "r", "r", "e", "n", "t", "\"", ":", " ", "1", ",", " ", "\"", "m", "a", "x", "\"", ":", " ", "2", ",", " ", "\"", "p", "e", "r", "c", "e", "n", "t", "a", "g", "e", "\"", ":", " ", "5", "0", ",", " ", "\"", "s", "t", "a", "t", "u", "s", "\"", ":", " ", "\"", "o", "v", "e", "r", "\"", "}", ",", " ", "\"", "w", "a", "r", "n", "i", "n", "g", "s", "\"", ":", " ", "[", "]", ",", " ", "\"", "c", "o", "r", "e", "_", "v", "a", "l", "u", "e", "_", "s", "c", "o", "r", "e", "s", "\"", ":", " ", "[", "]", ",", " ", "\"", "f", "e", "e", "d", "b", "a", "c", "k", "s", "\"", ":", " ", "[", "{", "\"", "c", "a", "t", "e", "g", "o", "r", "y", "\"", ":", " ", "\"", "#gu", "#seo-ng", "\"", ",", " ", "\"", "s", "c", "o", "r", "e", "\"", ":", " ", "7", ",", " ", "\"", "c", "o", "m", "m", "e", "n", "t", "\"", ":", " ", "\"", "#jo-h", "#eu-m", "\"", "}", "]", ",", " ", "\"", "k", "e", "y", "w", "o", "r", "d", "_", "a", "n", "a", "l", "y", "s", "i", "s", "\"", ":", " ", "{", "\"", "f", "o", "u", "n", "d", "_", "k", "e", "y", "w", "o", "r", "d", "s", "\"", ":", " ", "[", "]", ",", " ", "\"", "m", "i", "s", "s", "i", "n", "g", "_", "k", "e", "y", "w", "o", "r", "d", "s", "\"", ":", " ", "[", "\"", "#hyeo-g", "#si-n", "\"", "]", ",", " ", "\"", "m", "a", "t", "c", "h", "_", "r", "a", "t", "e", "\"", ":", " ", "0", "}", ",", " ", "\"", "e", "x", "p", "e", "c", "t", "e", "d", "_", "q", "u", "e", "s", "t", "i", "o", "n", "s", "\"", ":", " ", "[", "\"", "#wae", " ", "#ji", "#wo-n", "#hae-ss", "#na", "#yo", "?", "\"", "]", "}">>,
    <<"{", "\"", "o", "v", "e", "r", "a", "l", "l", "_", "s", "c", "o", "r", "e", "\"", ":", " ", "6", "0", ",", " ", "\"", "s", "t", "r", "e", "n", "g", "t", "h", "s", "\"", ":", " ", "5", "}">> }

\* dict.get(key, default) on a JSON object: the value given last for the key
get(d, key, default) ==
  LET hit == {k \in 1..Len(d.ks) : d.ks[k] = key}
  IN  IF hit = {} THEN default ELSE d.vs[CHOOSE k \in hit : \A h \in hit : h <= k]

\* whether a field of the response schemas takes the JSON value v as it is:
\* str; int; "score", an int from 1 to 10; "percent", an int from 0 to 100;
\* float (a whole number is taken); bool; "optional str"; lists of str and
\* of int; "checklist", a dict of lists of str
Accepts(kind, v) ==
  CASE kind = "str" -> v.t = "str"
    [] kind = "optional str" -> v.t \in {"str", "null"}
    [] kind = "int" -> v.t = "int"
    [] kind = "float" -> v.t = "int"
    [] kind = "score" -> v.t = "int" /\ v.n >= 1 /\ v.n <= 10
    [] kind = "percent" -> v.t = "int" /\ v.n >= 0 /\ v.n <= 100
    [] kind = "bool" -> v.t = "bool"
    [] kind = "list[str]" -> v.t = "list" /\ \A k \in 1..Len(v.xs) : v.xs[k].t = "str"
    [] kind = "list[int]" -> v.t = "list" /\ \A k \in 1..Len(v.xs) : v.xs[k].t = "int"
    [] kind = "checklist" ->
         /\ v.t = "dict"
         /\ \A k \in 1..Len(v.vs) :
              v.vs[k].t = "list" /\ \A j \in 1..Len(v.vs[k].xs) : v.vs[k].xs[j].t = "str"

\* _parse_response(llm_response, request): the response, or [raises |->
\* "error"] where a lookup in the data or the validation of a schema raises
_parse_response(llm_response, request) ==
  LET loaded == json_loads(llm_response)
      str(s) == [t |-> "str", s |-> s]
      int(n) == [t |-> "int", n |-> n]
      list(xs) == [t |-> "list", xs |-> xs]
      null == [t |-> "null"]
      \* what d[key] does not find
      missing == [t |-> "missing"]
      \* the data of a text that is no JSON
      default_data == [t |-> "dict",
                       ks |-> <<<<"o", "v", "e", "r", "a", "l", "l", "_", "s", "c", "o", "r", "e">>, <<"f", "e", "e", "d", "b", "a", "c", "k", "s">>, <<"k", "e", "y", "w", "o", "r", "d", "_", "a", "n", "a", "l", "y", "s", "i", "s">>,
                                <<"e", "x", "p", "e", "c", "t", "e", "d", "_", "q", "u", "e", "s", "t", "i", "o", "n", "s">>>>,
                       vs |-> <<int(50), list(<<>>),
                                [t |-> "dict",
                                 ks |-> <<<<"f", "o", "u", "n", "d", "_", "k", "e", "y", "w", "o", "r", "d", "s">>, <<"m", "i", "s", "s", "i", "n", "g", "_", "k", "e", "y", "w", "o", "r", "d", "s">>, <<"m", "a", "t", "c", "h", "_", "r", "a", "t", "e">>>>,
                                 vs |-> <<list(<<>>), list(<<>>), int(0)>>],
                                list(<<>>)>>]
      \* the response made of the data
      parsed(data) ==
        LET length_check == calculate_length_check(request.answer, request.maxLength)
            RECURSIVE Plain(_)
            \* a JSON value as the value of a field
            Plain(v) == CASE v.t = "str" -> v.s
                          [] v.t = "int" -> v.n
                          [] v.t = "bool" -> v.b
                          [] v.t = "list" -> [k \in 1..Len(v.xs) |-> Plain(v.xs[k])]
                          [] OTHER -> None
            \* bool(v)
            truthy(v) == CASE v.t = "str" -> v.s # <<>>
                           [] v.t = "int" -> v.n # 0
                           [] v.t = "bool" -> v.b
                           [] v.t = "list" -> v.xs # <<>>
                           [] v.t = "dict" -> v.ks # <<>>
                           [] OTHER -> FALSE
            \* what a loop over v goes through (of a string, its characters; of a
            \* dict, its keys)
            elements(v) == CASE v.t = "list" -> v.xs
                             [] v.t = "str" -> [k \in 1..Len(v.s) |-> str(<<v.s[k]>>)]
                             [] v.t = "dict" -> [k \in 1..Len(v.ks) |-> str(v.ks[k])]
                             [] OTHER -> <<>>
            iterable(v) == v.t \in {"list", "str", "dict"}
            \* a dict in which each of the fields (<<key, kind, default>>) is
            \* accepted
            valid(d, fields) ==
              /\ d.t = "dict"
              /\ \A f \in 1..Len(fields) : Accepts(fields[f][2], get(d, fields[f][1], fields[f][3]))
            ncs_data == get(data, <<"n", "c", "s", "_", "a", "n", "a", "l", "y", "s", "i", "s">>, null)
            has_ncs == truthy(ncs_data)
            competencies == get(ncs_data, <<"e", "v", "a", "l", "u", "a", "t", "e", "d", "_", "c", "o", "m", "p", "e", "t", "e", "n", "c", "i", "e", "s">>, list(<<>>))
            ncs_fields == << <<<<"s", "t", "r", "o", "n", "g", "e", "s", "t">>, "str", str(<<>>)>>, <<<<"w", "e", "a", "k", "e", "s", "t">>, "str", str(<<>>)>>,
                             <<<<"o", "v", "e", "r", "a", "l", "l", "_", "c", "o", "m", "m", "e", "n", "t">>, "str", str(<<>>)>> >>
            item_fields == << <<<<"c", "o", "m", "p", "e", "t", "e", "n", "c", "y">>, "str", missing>>, <<<<"s", "c", "o", "r", "e">>, "score", missing>>,
                              <<<<"e", "v", "i", "d", "e", "n", "c", "e">>, "str", missing>>,
                              <<<<"s", "u", "g", "g", "e", "s", "t", "i", "o", "n">>, "optional str", null>> >>
            talent_data == get(data, <<"t", "a", "l", "e", "n", "t", "_", "a", "n", "a", "l", "y", "s", "i", "s">>, null)
            has_talent == truthy(talent_data)
            talent_fields == << <<<<"m", "a", "t", "c", "h", "_", "s", "c", "o", "r", "e">>, "score", int(5)>>,
                                <<<<"m", "a", "t", "c", "h", "e", "d", "_", "t", "r", "a", "i", "t", "s">>, "list[str]", list(<<>>)>>,
                                <<<<"m", "i", "s", "s", "i", "n", "g", "_", "t", "r", "a", "i", "t", "s">>, "list[str]", list(<<>>)>>,
                                <<<<"o", "v", "e", "r", "a", "l", "l", "_", "c", "o", "m", "m", "e", "n", "t">>, "str", str(<<>>)>>,
                                <<<<"i", "m", "p", "r", "o", "v", "e", "m", "e", "n", "t", "_", "t", "i", "p", "s">>, "list[str]", list(<<>>)>> >>
            feedbacks == get(data, <<"f", "e", "e", "d", "b", "a", "c", "k", "s">>, list(<<>>))
            feedback_fields == << <<<<"c", "a", "t", "e", "g", "o", "r", "y">>, "str", missing>>, <<<<"s", "c", "o", "r", "e">>, "score", missing>>,
                                  <<<<"c", "o", "m", "m", "e", "n", "t">>, "str", missing>>,
                                  <<<<"s", "u", "g", "g", "e", "s", "t", "i", "o", "n">>, "optional str", null>> >>
            keyword_data == get(data, <<"k", "e", "y", "w", "o", "r", "d", "_", "a", "n", "a", "l", "y", "s", "i", "s">>, missing)
            keyword_fields == << <<<<"f", "o", "u", "n", "d", "_", "k", "e", "y", "w", "o", "r", "d", "s">>, "list[str]", missing>>,
                                 <<<<"m", "i", "s", "s", "i", "n", "g", "_", "k", "e", "y", "w", "o", "r", "d", "s">>, "list[str]", missing>>,
                                 <<<<"m", "a", "t", "c", "h", "_", "r", "a", "t", "e">>, "float", missing>> >>
            expected_questions == get(data, <<"e", "x", "p", "e", "c", "t", "e", "d", "_", "q", "u", "e", "s", "t", "i", "o", "n", "s">>, list(<<>>))
            \* the value of the f-th of the fields of d
            field(d, fields, f) == Plain(get(d, fields[f][1], fields[f][3]))
            returns ==
              /\ data.t = "dict"
              /\ has_ncs =>
                   /\ valid(ncs_data, ncs_fields)
                   /\ iterable(competencies)
                   /\ \A k \in 1..Len(elements(competencies)) :
                        valid(elements(competencies)[k], item_fields)
              /\ has_talent => valid(talent_data, talent_fields)
              /\ Accepts("percent", get(data, <<"o", "v", "e", "r", "a", "l", "l", "_", "s", "c", "o", "r", "e">>, missing))
              /\ iterable(feedbacks)
              /\ \A k \in 1..Len(elements(feedbacks)) : valid(elements(feedbacks)[k], feedback_fields)
              /\ valid(keyword_data, keyword_fields)
              /\ Accepts("list[str]", expected_questions)
        IN  IF ~returns THEN [raises |-> "error"]
            ELSE [overall_score |-> get(data, <<"o", "v", "e", "r", "a", "l", "l", "_", "s", "c", "o", "r", "e">>, missing).n,
                  length_check |-> length_check,
                  feedbacks |->
                    [k \in 1..Len(elements(feedbacks)) |->
                       LET f == elements(feedbacks)[k]
                       IN  [category |-> field(f, feedback_fields, 1),
                            score |-> field(f, feedback_fields, 2),
                            comment |-> field(f, feedback_fields, 3),
                            suggestion |-> field(f, feedback_fields, 4)]],
                  keyword_analysis |->
                    [found_keywords |-> field(keyword_data, keyword_fields, 1),
                     missing_keywords |-> field(keyword_data, keyword_fields, 2),
                     match_rate |-> field(keyword_data, keyword_fields, 3)],
                  ncs_analysis |->
                    IF has_ncs
                    THEN [evaluated_competencies |->
                            [k \in 1..Len(elements(competencies)) |->
                               LET item == elements(competencies)[k]
                               IN  [competency |-> field(item, item_fields, 1),
                                    score |-> field(item, item_fields, 2),
                                    evidence |-> field(item, item_fields, 3),
                                    suggestion |-> field(item, item_fields, 4)]],
                          strongest |-> field(ncs_data, ncs_fields, 1),
                          weakest |-> field(ncs_data, ncs_fields, 2),
                          overall_comment |-> field(ncs_data, ncs_fields, 3)]
                    ELSE None,
                  talent_analysis |->
                    IF has_talent
                    THEN [match_score |-> field(talent_data, talent_fields, 1),
                          matched_traits |-> field(talent_data, talent_fields, 2),
                          missing_traits |-> field(talent_data, talent_fields, 3),
                          overall_comment |-> field(talent_data, talent_fields, 4),
                          improvement_tips |-> field(talent_data, talent_fields, 5)]
                    ELSE None,
                  expected_questions |-> Plain(expected_questions)]
  IN  parsed(IF loaded.ok THEN loaded.v ELSE default_data)

\* _parse_response_v2 without its except clause: a response that is not
\* JSON raises
_parse_response_v2_Uncaught(llm_response, request, org_data, core_value_scores, ncs_competency_scores, position_skill_match, db) ==
  LET loaded == json_loads(llm_response)
      str(s) == [t |-> "str", s |-> s]
      int(n) == [t |-> "int", n |-> n]
      list(xs) == [t |-> "list", xs |-> xs]
      dict(ks, vs) == [t |-> "dict", ks |-> ks, vs |-> vs]
      null == [t |-> "null"]
      \* the data of a text that is no JSON
      default_data == dict(<<<<"o", "v", "e", "r", "a", "l", "l", "_", "s", "c", "o", "r", "e">>, <<"o", "v", "e", "r", "a", "l", "l", "_", "g", "r", "a", "d", "e">>, <<"o", "v", "e", "r", "a", "l", "l", "_", "s", "u", "m", "m", "a", "r", "y">>,
                             <<"s", "t", "r", "e", "n", "g", "t", "h", "s">>, <<"i", "m", "p", "r", "o", "v", "e", "m", "e", "n", "t", "s">>, <<"k", "e", "y", "w", "o", "r", "d", "_", "a", "n", "a", "l", "y", "s", "i", "s">>,
                             <<"i", "n", "t", "e", "r", "v", "i", "e", "w", "_", "q", "u", "e", "s", "t", "i", "o", "n", "s">>, <<"m", "o", "d", "e", "l", "_", "a", "n", "s", "w", "e", "r", "_", "c", "h", "e", "c", "k", "l", "i", "s", "t">>,
                             <<"m", "o", "d", "e", "l", "_", "a", "n", "s", "w", "e", "r">>, <<"m", "o", "d", "e", "l", "_", "a", "n", "s", "w", "e", "r", "_", "l", "e", "n", "g", "t", "h">>>>,
                           <<int(50), str(<<"#bo", "#to-ng">>), str(<<"#bu-n", "#seo-g", " ", "#ju-ng", " ", "#o", "#ryu", "#ga", " ", "#ba-l", "#sae-ng", "#hae-ss", "#seu-b", "#ni", "#da", ".">>),
                             list(<<>>), list(<<>>),
                             dict(<<<<"f", "o", "u", "n", "d", "_", "k", "e", "y", "w", "o", "r", "d", "s">>, <<"m", "i", "s", "s", "i", "n", "g", "_", "k", "e", "y", "w", "o", "r", "d", "s">>, <<"m", "a", "t", "c", "h", "_", "r", "a", "t", "e">>>>,
                                  <<list(<<>>), list(<<>>), int(0)>>),
                             list(<<>>), dict(<<>>, <<>>), str(<<>>), int(0)>>)
      \* the response made of the data
      parsed(data) ==
        LET length_check == calculate_length_check(request.answer, request.maxLength)
            RECURSIVE Plain(_)
            \* a JSON value as the value of a field
            Plain(v) == CASE v.t = "str" -> v.s
                          [] v.t = "int" -> v.n
                          [] v.t = "bool" -> v.b
                          [] v.t = "list" -> [k \in 1..Len(v.xs) |-> Plain(v.xs[k])]
                          [] v.t = "dict" -> v
                          [] OTHER -> None
            \* bool(v)
            truthy(v) == CASE v.t = "str" -> v.s # <<>>
                           [] v.t = "int" -> v.n # 0
                           [] v.t = "bool" -> v.b
                           [] v.t = "list" -> v.xs # <<>>
                           [] v.t = "dict" -> v.ks # <<>>
                           [] OTHER -> FALSE
            \* what a loop over v goes through (of a string, its characters; of a
            \* dict, its keys)
            elements(v) == CASE v.t = "list" -> v.xs
                             [] v.t = "str" -> [k \in 1..Len(v.s) |-> str(<<v.s[k]>>)]
                             [] v.t = "dict" -> [k \in 1..Len(v.ks) |-> str(v.ks[k])]
                             [] OTHER -> <<>>
            iterable(v) == v.t \in {"list", "str", "dict"}
            \* a dict in which each of the fields (<<key, kind, default>>) is
            \* accepted
            valid(d, fields) ==
              /\ d.t = "dict"
              /\ \A f \in 1..Len(fields) : Accepts(fields[f][2], get(d, fields[f][1], fields[f][3]))
            \* the value of the f-th of the fields of d
            field(d, fields, f) == Plain(get(d, fields[f][1], fields[f][3]))
            strengths == get(data, <<"s", "t", "r", "e", "n", "g", "t", "h", "s">>, list(<<>>))
            strength_fields == << <<<<"t", "i", "t", "l", "e">>, "str", str(<<>>)>>, <<<<"s", "c", "o", "r", "e">>, "score", int(5)>>,
                                  <<<<"q", "u", "o", "t", "e">>, "str", str(<<>>)>>,
                                  <<<<"e", "v", "a", "l", "u", "a", "t", "i", "o", "n">>, "str", str(<<>>)>> >>
            improvements == get(data, <<"i", "m", "p", "r", "o", "v", "e", "m", "e", "n", "t", "s">>, list(<<>>))
            improvement_fields == << <<<<"t", "i", "t", "l", "e">>, "str", str(<<>>)>>, <<<<"s", "c", "o", "r", "e">>, "score", int(5)>>,
                                     <<<<"p", "r", "o", "b", "l", "e", "m">>, "str", str(<<>>)>>,
                                     <<<<"c", "u", "r", "r", "e", "n", "t", "_", "t", "e", "x", "t">>, "str", str(<<>>)>>,
                                     <<<<"i", "m", "p", "r", "o", "v", "e", "d", "_", "t", "e", "x", "t">>, "str", str(<<>>)>> >>
            keyword_data == get(data, <<"k", "e", "y", "w", "o", "r", "d", "_", "a", "n", "a", "l", "y", "s", "i", "s">>, dict(<<>>, <<>>))
            keyword_fields == << <<<<"f", "o", "u", "n", "d", "_", "k", "e", "y", "w", "o", "r", "d", "s">>, "list[str]", list(<<>>)>>,
                                 <<<<"m", "i", "s", "s", "i", "n", "g", "_", "k", "e", "y", "w", "o", "r", "d", "s">>, "list[str]", list(<<>>)>>,
                                 <<<<"m", "a", "t", "c", "h", "_", "r", "a", "t", "e">>, "float", int(0)>> >>
            questions == get(data, <<"i", "n", "t", "e", "r", "v", "i", "e", "w", "_", "q", "u", "e", "s", "t", "i", "o", "n", "s">>, list(<<>>))
            question_fields == << <<<<"q", "u", "e", "s", "t", "i", "o", "n">>, "str", str(<<>>)>>,
                                  <<<<"i", "s", "_", "f", "r", "e", "q", "u", "e", "n", "t">>, "bool", [t |-> "bool", b |-> FALSE]>>,
                                  <<<<"a", "n", "s", "w", "e", "r", "_", "t", "i", "p", "s">>, "str", str(<<>>)>> >>
            \* q.get("years", []) if isinstance(q.get("years"), list)
            \* else ([q.get("year")] if q.get("year") else [])
            years(q) == IF get(q, <<"y", "e", "a", "r", "s">>, null).t = "list" THEN get(q, <<"y", "e", "a", "r", "s">>, list(<<>>))
                        ELSE IF truthy(get(q, <<"y", "e", "a", "r">>, null)) THEN list(<<get(q, <<"y", "e", "a", "r">>, null)>>)
                        ELSE list(<<>>)
            model_answer_checklist == get(data, <<"m", "o", "d", "e", "l", "_", "a", "n", "s", "w", "e", "r", "_", "c", "h", "e", "c", "k", "l", "i", "s", "t">>, dict(<<>>, <<>>))
            model_answer == get(data, <<"m", "o", "d", "e", "l", "_", "a", "n", "s", "w", "e", "r">>, str(<<>>))
            formatted == _format_model_answer_paragraphs(model_answer.s)
            warnings == check_warnings(request.answer, request.organization)
            similar_questions == find_similar_questions(request.question, request.organization, db)
            returns ==
              /\ loaded.ok
              /\ data.t = "dict"
              /\ iterable(strengths)
              /\ \A k \in 1..Len(elements(strengths)) : valid(elements(strengths)[k], strength_fields)
              /\ iterable(improvements)
              /\ \A k \in 1..Len(elements(improvements)) :
                   valid(elements(improvements)[k], improvement_fields)
              /\ valid(keyword_data, keyword_fields)
              /\ iterable(questions)
              /\ \A k \in 1..Len(elements(questions)) :
                   /\ valid(elements(questions)[k], question_fields)
                   /\ Accepts("list[int]", years(elements(questions)[k]))
              /\ Accepts("checklist", model_answer_checklist)
              /\ model_answer.t = "str"
              /\ Accepts("percent", get(data, <<"o", "v", "e", "r", "a", "l", "l", "_", "s", "c", "o", "r", "e">>, int(50)))
              /\ Accepts("str", get(data, <<"o", "v", "e", "r", "a", "l", "l", "_", "g", "r", "a", "d", "e">>, str(<<"#bo", "#to-ng">>)))
              /\ Accepts("str", get(data, <<"o", "v", "e", "r", "a", "l", "l", "_", "s", "u", "m", "m", "a", "r", "y">>, str(<<>>)))
        IN  IF ~returns THEN [raises |-> "error"]
            ELSE [overall_score |-> get(data, <<"o", "v", "e", "r", "a", "l", "l", "_", "s", "c", "o", "r", "e">>, int(50)).n,
                  overall_grade |-> get(data, <<"o", "v", "e", "r", "a", "l", "l", "_", "g", "r", "a", "d", "e">>, str(<<"#bo", "#to-ng">>)).s,
                  overall_summary |-> get(data, <<"o", "v", "e", "r", "a", "l", "l", "_", "s", "u", "m", "m", "a", "r", "y">>, str(<<>>)).s,
                  length_check |-> length_check,
                  warnings |-> warnings,
                  strengths |->
                    [k \in 1..Len(elements(strengths)) |->
                       LET s == elements(strengths)[k]
                       IN  [title |-> field(s, strength_fields, 1),
                            score |-> field(s, strength_fields, 2),
                            quote |-> field(s, strength_fields, 3),
                            evaluation |-> field(s, strength_fields, 4)]],
                  improvements |->
                    [k \in 1..Len(elements(improvements)) |->
                       LET i == elements(improvements)[k]
                       IN  [title |-> field(i, improvement_fields, 1),
                            score |-> field(i, improvement_fields, 2),
                            problem |-> field(i, improvement_fields, 3),
                            current_text |-> field(i, improvement_fields, 4),
                            improved_text |-> field(i, improvement_fields, 5)]],
                  keyword_analysis |->
                    [found_keywords |-> field(keyword_data, keyword_fields, 1),
                     missing_keywords |-> field(keyword_data, keyword_fields, 2),
                     match_rate |-> field(keyword_data, keyword_fields, 3)],
                  core_value_scores |-> core_value_scores,
                  ncs_competency_scores |-> ncs_competency_scores,
                  similar_questions |-> similar_questions,
                  position_skill_match |-> position_skill_match,
                  interview_questions |->
                    [k \in 1..Len(elements(questions)) |->
                       LET q == elements(questions)[k]
                       IN  [question |-> field(q, question_fields, 1),
                            is_frequent |-> field(q, question_fields, 2),
                            years |-> Plain(years(q)),
                            answer_tips |-> field(q, question_fields, 3)]],
                  model_answer_checklist |-> model_answer_checklist,
                  model_answer |-> formatted,
                  model_answer_length |-> Len(Strip(formatted))]

  IN  parsed(IF loaded.ok THEN loaded.v ELSE default_data)

\* _parse_response_v2(llm_response, request, org_data, interview_data,
\* past_questions_data, core_value_scores, ncs_competency_scores,
\* position_skill_match) with the analyses given, as analyze_v2 gives them,
\* and the question database on disk: the response, or [raises |-> "error"]
\* where a lookup in the data or the validation of a schema raises.  Of the
\* response, organization_info, interview_detail and past_questions, which
\* are made of the knowledge data alone, and the sample answers of the
\* interview questions are left out.
_parse_response_v2(llm_response, request, org_data, core_value_scores, ncs_competency_scores, position_skill_match, db) ==
  LET loaded == json_loads(llm_response)
      str(s) == [t |-> "str", s |-> s]
      int(n) == [t |-> "int", n |-> n]
      list(xs) == [t |-> "list", xs |-> xs]
      dict(ks, vs) == [t |-> "dict", ks |-> ks, vs |-> vs]
      null == [t |-> "null"]
      \* the data of a text that is no JSON
      default_data == dict(<<<<"o", "v", "e", "r", "a", "l", "l", "_", "s", "c", "o", "r", "e">>, <<"o", "v", "e", "r", "a", "l", "l", "_", "g", "r", "a", "d", "e">>, <<"o", "v", "e", "r", "a", "l", "l", "_", "s", "u", "m", "m", "a", "r", "y">>,
                             <<"s", "t", "r", "e", "n", "g", "t", "h", "s">>, <<"i", "m", "p", "r", "o", "v", "e", "m", "e", "n", "t", "s">>, <<"k", "e", "y", "w", "o", "r", "d", "_", "a", "n", "a", "l", "y", "s", "i", "s">>,
                             <<"i", "n", "t", "e", "r", "v", "i", "e", "w", "_", "q", "u", "e", "s", "t", "i", "o", "n", "s">>, <<"m", "o", "d", "e", "l", "_", "a", "n", "s", "w", "e", "r", "_", "c", "h", "e", "c", "k", "l", "i", "s", "t">>,
                             <<"m", "o", "d", "e", "l", "_", "a", "n", "s", "w", "e", "r">>, <<"m", "o", "d", "e", "l", "_", "a", "n", "s", "w", "e", "r", "_", "l", "e", "n", "g", "t", "h">>>>,
                           <<int(50), str(<<"#bo", "#to-ng">>), str(<<"#bu-n", "#seo-g", " ", "#ju-ng", " ", "#o", "#ryu", "#ga", " ", "#ba-l", "#sae-ng", "#hae-ss", "#seu-b", "#ni", "#da", ".">>),
                             list(<<>>), list(<<>>),
                             dict(<<<<"f", "o", "u", "n", "d", "_", "k", "e", "y", "w", "o", "r", "d", "s">>, <<"m", "i", "s", "s", "i", "n", "g", "_", "k", "e", "y", "w", "o", "r", "d", "s">>, <<"m", "a", "t", "c", "h", "_", "r", "a", "t", "e">>>>,
                                  <<list(<<>>), list(<<>>), int(0)>>),
                             list(<<>>), dict(<<>>, <<>>), str(<<>>), int(0)>>)
      \* the response made of the data
      parsed(data) ==
        LET length_check == calculate_length_check(request.answer, request.maxLength)
            RECURSIVE Plain(_)
            \* a JSON value as the value of a field
            Plain(v) == CASE v.t = "str" -> v.s
                          [] v.t = "int" -> v.n
                          [] v.t = "bool" -> v.b
                          [] v.t = "list" -> [k \in 1..Len(v.xs) |-> Plain(v.xs[k])]
                          [] v.t = "dict" -> v
                          [] OTHER -> None
            \* bool(v)
            truthy(v) == CASE v.t = "str" -> v.s # <<>>
                           [] v.t = "int" -> v.n # 0
                           [] v.t = "bool" -> v.b
                           [] v.t = "list" -> v.xs # <<>>
                           [] v.t = "dict" -> v.ks # <<>>
                           [] OTHER -> FALSE
            \* what a loop over v goes through (of a string, its characters; of a
            \* dict, its keys)
            elements(v) == CASE v.t = "list" -> v.xs
                             [] v.t = "str" -> [k \in 1..Len(v.s) |-> str(<<v.s[k]>>)]
                             [] v.t = "dict" -> [k \in 1..Len(v.ks) |-> str(v.ks[k])]
                             [] OTHER -> <<>>
            iterable(v) == v.t \in {"list", "str", "dict"}
            \* a dict in which each of the fields (<<key, kind, default>>) is
            \* accepted
            valid(d, fields) ==
              /\ d.t = "dict"
              /\ \A f \in 1..Len(fields) : Accepts(fields[f][2], get(d, fields[f][1], fields[f][3]))
            \* the value of the f-th of the fields of d
            field(d, fields, f) == Plain(get(d, fields[f][1], fields[f][3]))
            strengths == get(data, <<"s", "t", "r", "e", "n", "g", "t", "h", "s">>, list(<<>>))
            strength_fields == << <<<<"t", "i", "t", "l", "e">>, "str", str(<<>>)>>, <<<<"s", "c", "o", "r", "e">>, "score", int(5)>>,
                                  <<<<"q", "u", "o", "t", "e">>, "str", str(<<>>)>>,
                                  <<<<"e", "v", "a", "l", "u", "a", "t", "i", "o", "n">>, "str", str(<<>>)>> >>
            improvements == get(data, <<"i", "m", "p", "r", "o", "v", "e", "m", "e", "n", "t", "s">>, list(<<>>))
            improvement_fields == << <<<<"t", "i", "t", "l", "e">>, "str", str(<<>>)>>, <<<<"s", "c", "o", "r", "e">>, "score", int(5)>>,
                                     <<<<"p", "r", "o", "b", "l", "e", "m">>, "str", str(<<>>)>>,
                                     <<<<"c", "u", "r", "r", "e", "n", "t", "_", "t", "e", "x", "t">>, "str", str(<<>>)>>,
                                     <<<<"i", "m", "p", "r", "o", "v", "e", "d", "_", "t", "e", "x", "t">>, "str", str(<<>>)>> >>
            keyword_data == get(data, <<"k", "e", "y", "w", "o", "r", "d", "_", "a", "n", "a", "l", "y", "s", "i", "s">>, dict(<<>>, <<>>))
            keyword_fields == << <<<<"f", "o", "u", "n", "d", "_", "k", "e", "y", "w", "o", "r", "d", "s">>, "list[str]", list(<<>>)>>,
                                 <<<<"m", "i", "s", "s", "i", "n", "g", "_", "k", "e", "y", "w", "o", "r", "d", "s">>, "list[str]", list(<<>>)>>,
                                 <<<<"m", "a", "t", "c", "h", "_", "r", "a", "t", "e">>, "float", int(0)>> >>
            questions == get(data, <<"i", "n", "t", "e", "r", "v", "i", "e", "w", "_", "q", "u", "e", "s", "t", "i", "o", "n", "s">>, list(<<>>))
            question_fields == << <<<<"q", "u", "e", "s", "t", "i", "o", "n">>, "str", str(<<>>)>>,
                                  <<<<"i", "s", "_", "f", "r", "e", "q", "u", "e", "n", "t">>, "bool", [t |-> "bool", b |-> FALSE]>>,
                                  <<<<"a", "n", "s", "w", "e", "r", "_", "t", "i", "p", "s">>, "str", str(<<>>)>> >>
            \* q.get("years", []) if isinstance(q.get("years"), list)
            \* else ([q.get("year")] if q.get("year") else [])
            years(q) == IF get(q, <<"y", "e", "a", "r", "s">>, null).t = "list" THEN get(q, <<"y", "e", "a", "r", "s">>, list(<<>>))
                        ELSE IF truthy(get(q, <<"y", "e", "a", "r">>, null)) THEN list(<<get(q, <<"y", "e", "a", "r">>, null)>>)
                        ELSE list(<<>>)
            model_answer_checklist == get(data, <<"m", "o", "d", "e", "l", "_", "a", "n", "s", "w", "e", "r", "_", "c", "h", "e", "c", "k", "l", "i", "s", "t">>, dict(<<>>, <<>>))
            model_answer == get(data, <<"m", "o", "d", "e", "l", "_", "a", "n", "s", "w", "e", "r">>, str(<<>>))
            formatted == _format_model_answer_paragraphs(model_answer.s)
            warnings == check_warnings(request.answer, request.organization)
            similar_questions == find_similar_questions(request.question, request.organization, db)
            returns ==
              /\ data.t = "dict"
              /\ iterable(strengths)
              /\ \A k \in 1..Len(elements(strengths)) : valid(elements(strengths)[k], strength_fields)
              /\ iterable(improvements)
              /\ \A k \in 1..Len(elements(improvements)) :
                   valid(elements(improvements)[k], improvement_fields)
              /\ valid(keyword_data, keyword_fields)
              /\ iterable(questions)
              /\ \A k \in 1..Len(elements(questions)) :
                   /\ valid(elements(questions)[k], question_fields)
                   /\ Accepts("list[int]", years(elements(questions)[k]))
              /\ Accepts("checklist", model_answer_checklist)
              /\ model_answer.t = "str"
              /\ Accepts("percent", get(data, <<"o", "v", "e", "r", "a", "l", "l", "_", "s", "c", "o", "r", "e">>, int(50)))
              /\ Accepts("str", get(data, <<"o", "v", "e", "r", "a", "l", "l", "_", "g", "r", "a", "d", "e">>, str(<<"#bo", "#to-ng">>)))
              /\ Accepts("str", get(data, <<"o", "v", "e", "r", "a", "l", "l", "_", "s", "u", "m", "m", "a", "r", "y">>, str(<<>>)))
        IN  IF ~returns THEN [raises |-> "error"]
            ELSE [overall_score |-> get(data, <<"o", "v", "e", "r", "a", "l", "l", "_", "s", "c", "o", "r", "e">>, int(50)).n,
                  overall_grade |-> get(data, <<"o", "v", "e", "r", "a", "l", "l", "_", "g", "r", "a", "d", "e">>, str(<<"#bo", "#to-ng">>)).s,
                  overall_summary |-> get(data, <<"o", "v", "e", "r", "a", "l", "l", "_", "s", "u", "m", "m", "a", "r", "y">>, str(<<>>)).s,
                  length_check |-> length_check,
                  warnings |-> warnings,
                  strengths |->
                    [k \in 1..Len(elements(strengths)) |->
                       LET s == elements(strengths)[k]
                       IN  [title |-> field(s, strength_fields, 1),
                            score |-> field(s, strength_fields, 2),
                            quote |-> field(s, strength_fields, 3),
                            evaluation |-> field(s, strength_fields, 4)]],
                  improvements |->
                    [k \in 1..Len(elements(improvements)) |->
                       LET i == elements(improvements)[k]
                       IN  [title |-> field(i, improvement_fields, 1),
                            score |-> field(i, improvement_fields, 2),
                            problem |-> field(i, improvement_fields, 3),
                            current_text |-> field(i, improvement_fields, 4),
                            improved_text |-> field(i, improvement_fields, 5)]],
                  keyword_analysis |->
                    [found_keywords |-> field(keyword_data, keyword_fields, 1),
                     missing_keywords |-> field(keyword_data, keyword_fields, 2),
                     match_rate |-> field(keyword_data, keyword_fields, 3)],
                  core_value_scores |-> core_value_scores,
                  ncs_competency_scores |-> ncs_competency_scores,
                  similar_questions |-> similar_questions,
                  position_skill_match |-> position_skill_match,
                  interview_questions |->
                    [k \in 1..Len(elements(questions)) |->
                       LET q == elements(questions)[k]
                       IN  [question |-> field(q, question_fields, 1),
                            is_frequent |-> field(q, question_fields, 2),
                            years |-> Plain(years(q)),
                            answer_tips |-> field(q, question_fields, 3)]],
                  model_answer_checklist |-> model_answer_checklist,
                  model_answer |-> formatted,
                  model_answer_length |-> Len(Strip(formatted))]
  IN  parsed(IF loaded.ok THEN loaded.v ELSE default_data)

Call_parse_response ==
  /\ call = "none"
  /\ UNCHANGED <<_cache, calls>>
  /\ \E llm_response \in LLMResponses,
        answer \in {Strip(ScoreSentences[2]), Strip(WarnSentences[8] \o WarnSentences[11])},
        maxLength \in {40, 500} :
       LET request == [answer |-> answer, maxLength |-> maxLength]
       IN  /\ call' = "_parse_response"
           /\ args' = [llm_response |-> llm_response, request |-> request]
           /\ result' = _parse_response(llm_response, request)

\* Call_parse_response_v2 with the checks of the answer made on the text
\* of the LLM
Call_parse_response_v2_ChecksLLM ==
  /\ call = "none"
  /\ UNCHANGED <<_cache, calls>>
  /\ \E llm_response \in LLMResponses,
        answer \in {Strip(ScoreSentences[2]), Strip(WarnSentences[8] \o WarnSentences[11])},
        maxLength \in {40, 500},
        organization \in Organizations,
        question \in {<<"#ja", "#gi", "#so", "#gae", "#seo">>, <<"#ji", "#wo-n", "#do-ng", "#gi", "#wa", " ", "#i-b", "#sa", " ", "#hu", " ", "#gye", "#hoe-g", "#eu-l", " ", "#sseu", "#si", "#o", ".">>},
        core_values \in {<<>>, <<<<"#go", "#gae-g", "#ju-ng", "#si-m">>, <<"#do", "#jeo-n", "#jeo-ng", "#si-n">>>>},
        db \in {d \in Databases :
                  \/ ~d.exists
                  \/ /\ Cardinality(DOMAIN d.files) = Len(Years)
                     /\ \A name \in DOMAIN d.files : d.files[name] = QuestionFiles["A"]} :
       LET request == [answer |-> answer, maxLength |-> maxLength,
                       organization |-> organization, question |-> question]
           org_data == [core_values |-> core_values]
           core_value_scores == analyze_core_values(answer, core_values)
           ncs_competency_scores ==
             analyze_ncs_competencies(answer,
               <<[name |-> <<"#ui", "#sa", "#so", "#to-ng", "#neu-ng", "#ryeo-g">>, code |-> <<"N", "C", "S", "0", "1">>, importance |-> Required]>>)
           position_skill_match ==
             [matched_majors |-> <<>>, missing_majors |-> <<>>,
              matched_certifications |-> <<>>, missing_certifications |-> <<>>,
              matched_skills |-> <<>>, missing_skills |-> <<>>,
              overall_match_rate |-> 0, recommendation |-> <<>>]
       IN  /\ call' = "_parse_response_v2"
           /\ args' = [llm_response |-> llm_response, request |-> request,
                       org_data |-> org_data, core_value_scores |-> core_value_scores,
                       ncs_competency_scores |-> ncs_competency_scores,
                       position_skill_match |-> position_skill_match, db |-> db]
           /\ result' = _parse_response_v2(llm_response,
                                           [request EXCEPT !.answer = llm_response],
                                           org_data, core_value_scores,
                                           ncs_competency_scores, position_skill_match, db)

\* _parse_response_v2 as analyze_v2 calls it: with the response of the LLM,
\* the request, the data of the organization, and the analyses of the
\* answer made ahead of the call (position_skill_match for a service
\* without position data)
Call_parse_response_v2 ==
  /\ call = "none"
  /\ UNCHANGED <<_cache, calls>>
  /\ \E llm_response \in LLMResponses,
        answer \in {Strip(ScoreSentences[2]), Strip(WarnSentences[8] \o WarnSentences[11])},
        maxLength \in {40, 500},
        organization \in Organizations,
        question \in {<<"#ja", "#gi", "#so", "#gae", "#seo">>, <<"#ji", "#wo-n", "#do-ng", "#gi", "#wa", " ", "#i-b", "#sa", " ", "#hu", " ", "#gye", "#hoe-g", "#eu-l", " ", "#sseu", "#si", "#o", ".">>},
        core_values \in {<<>>, <<<<"#go", "#gae-g", "#ju-ng", "#si-m">>, <<"#do", "#jeo-n", "#jeo-ng", "#si-n">>>>},
        db \in {d \in Databases :
                  \/ ~d.exists
                  \/ /\ Cardinality(DOMAIN d.files) = Len(Years)
                     /\ \A name \in DOMAIN d.files : d.files[name] = QuestionFiles["A"]} :
       LET request == [answer |-> answer, maxLength |-> maxLength,
                       organization |-> organization, question |-> question]
           org_data == [core_values |-> core_values]
           core_value_scores == analyze_core_values(answer, core_values)
           ncs_competency_scores ==
             analyze_ncs_competencies(answer,
               <<[name |-> <<"#ui", "#sa", "#so", "#to-ng", "#neu-ng", "#ryeo-g">>, code |-> <<"N", "C", "S", "0", "1">>, importance |-> Required]>>)
           position_skill_match ==
             [matched_majors |-> <<>>, missing_majors |-> <<>>,
              matched_certifications |-> <<>>, missing_certifications |-> <<>>,
              matched_skills |-> <<>>, missing_skills |-> <<>>,
              overall_match_rate |-> 0, recommendation |-> <<>>]
       IN  /\ call' = "_parse_response_v2"
           /\ args' = [llm_response |-> llm_response, request |-> request,
                       org_data |-> org_data, core_value_scores |-> core_value_scores,
                       ncs_competency_scores |-> ncs_competency_scores,
                       position_skill_match |-> position_skill_match, db |-> db]
           /\ result' = _parse_response_v2(llm_response, request, org_data, core_value_scores,
                                           ncs_competency_scores, position_skill_match, db)

(***************************************************************************)
(* OrganizationManager.get_organization                                    *)
(***************************************************************************)
\* the most calls made to one manager
MaxCalls == 3

\* the codes that have a JSON file in the data directory
DataFiles == {<<"N", "H", "I", "S">>, <<"N", "P", "S">>}

\* get_organization that keeps the data under the code as it was given (a
\* faulty variant)
get_organization_KeyAsGiven(cache, code) ==
  LET code_upper == Upper(code)
  IN  IF code \in DOMAIN cache
      THEN [returned |-> cache[code], cache |-> cache]
      ELSE IF code_upper \notin DataFiles
      THEN [returned |-> [raises |-> "OrganizationNotFoundError", code |-> code_upper],
            cache |-> cache]
      ELSE LET data == [id |-> Cardinality(DOMAIN cache) + 1, code |-> code_upper]
           IN  [returned |-> data,
                cache |-> [k \in DOMAIN cache \cup {code} |->
                             IF k = code THEN data ELSE cache[k]]]

\* get_organization(code) with the cache at the call: what the call returns
\* (a data object, or the error it raises, with its code) and the cache after it.  A data
\* object is what _load_json made of the file, with an identity (id): the
\* number of the load.
get_organization(cache, code) ==
  LET code_upper == Upper(code)
  IN  IF code_upper \in DOMAIN cache
      THEN [returned |-> cache[code_upper], cache |-> cache]
      ELSE IF code_upper \notin DataFiles
      THEN [returned |-> [raises |-> "OrganizationNotFoundError", code |-> code_upper],
            cache |-> cache]
      ELSE LET data == [id |-> Cardinality(DOMAIN cache) + 1, code |-> code_upper]
           IN  [returned |-> data,
                cache |-> [k \in DOMAIN cache \cup {code_upper} |->
                             IF k = code_upper THEN data ELSE cache[k]]]

Call_get_organization ==
  /\ call \in {"none", "get_organization"}
  /\ Len(calls) < MaxCalls
  /\ \E code \in {<<"N", "H", "I", "S">>, <<"n", "h", "i", "s">>, <<"N", "h", "i", "s">>,
                  <<"N", "P", "S">>, <<"n", "p", "s">>,
                  <<"U", "N", "K", "N", "O", "W", "N", "_", "O", "R", "G">>} :
       LET got == get_organization(_cache, code)
       IN  /\ call' = "get_organization"
           /\ args' = [code |-> code]
           /\ result' = got.returned
           /\ _cache' = got.cache
           /\ calls' = Append(calls, [code |-> code, returned |-> got.returned,
                                      cache |-> got.cache])

SpecOrganization == Init /\ [][Call_get_organization]_vars

\* C26: over any sequence of calls of get_organization, a call that returns
\* returns the very data object that the first call that returned for the
\* same code, in any letter case, returned, and an entry of the cache never
\* changes once it is set; a call for a code without a data file raises
\* OrganizationNotFoundError and leaves the cache as it was.
C26_CacheStable ==
  \A j \in 1..Len(calls) :
    LET before == IF j = 1 THEN <<>> ELSE calls[j - 1].cache
        same(i) == Lower(calls[i].code) = Lower(calls[j].code)
    IN  /\ \A i \in 1..(j - 1) :
             /\ same(i)
             /\ "raises" \notin DOMAIN calls[i].returned
             /\ "raises" \notin DOMAIN calls[j].returned
             => calls[j].returned = calls[i].returned
        /\ \A k \in DOMAIN before :
             k \in DOMAIN calls[j].cache /\ calls[j].cache[k] = before[k]
        /\ (\A f \in DataFiles : Lower(f) # Lower(calls[j].code)) =>
             /\ calls[j].returned = [raises |-> "OrganizationNotFoundError",
                                     code |-> Upper(calls[j].code)]
             /\ calls[j].cache = before

\* C26 witness: a call in upper case, a call that raises, and then a call
\* in lower case that returns the object of the first call
C26_Witness ==
  /\ Len(calls) = 3
  /\ calls[1].code = <<"N", "H", "I", "S">>
  /\ "raises" \in DOMAIN calls[2].returned
  /\ calls[3].code = <<"n", "h", "i", "s">>
  /\ calls[3].returned = calls[1].returned
  /\ result = _cache[<<"N", "H", "I", "S">>]

(***************************************************************************)
(* Properties of the responses (checked under SpecResponse)                *)
(***************************************************************************)
SpecResponse ==
  Init /\ [][\/ Call_calculate_length_check
             \/ Call_parse_response
             \/ Call_parse_response_v2]_vars

\* C24: for a max_length above 0, calculate_length_check returns the number
\* of characters as current and the status over exactly when the count is
\* above max_length, optimal exactly when the count is at least 70 percent
\* of max_length and at most max_length, and short exactly when the count
\* is below 70 percent of max_length; for a max_length of 0 or less it
\* returns the percentage 0 and the status short.
C24_LengthStatus ==
  call = "calculate_length_check" =>
    LET count == Len(args.answer)
        max_length == args.max_length
    IN  /\ result.current = count
        /\ max_length > 0 =>
             /\ result.status = "over" <=> count > max_length
             /\ result.status = "optimal" <=>
                  10 * count >= 7 * max_length /\ count <= max_length
             /\ result.status = "short" <=> 10 * count < 7 * max_length
        /\ max_length <= 0 =>
             /\ result.percentage = [num |-> 0, den |-> 1]
             /\ result.status = "short"

\* C24 witness: an answer of exactly 70 percent of the limit is optimal
C24_Witness ==
  /\ call = "calculate_length_check"
  /\ Len(args.answer) = 7
  /\ args.max_length = 10
  /\ result.status = "optimal"
  /\ result.percentage = [num |-> 70, den |-> 1]

\* C25: for a fixed request and fixed data, the fields length_check,
\* warnings, core_value_scores, ncs_competency_scores, similar_questions and
\* position_skill_match of the response of _parse_response_v2, and the
\* length_check of the response of _parse_response, are the same for any
\* two responses of the LLM for which a response is returned.  The response
\* of a state is compared with those for the shortest texts, of which the
\* empty text and the empty object are returned for every request: fields
\* equal to theirs are equal for any two responses.
C25_IndependentOfLLM ==
  /\ (call = "_parse_response_v2" /\ "raises" \notin DOMAIN result) =>
       \A other \in {o \in LLMResponses : Len(o) < 5} :
         LET r == _parse_response_v2(other, args.request, args.org_data,
                                     args.core_value_scores, args.ncs_competency_scores,
                                     args.position_skill_match, args.db)
         IN  "raises" \notin DOMAIN r =>
               /\ r.length_check = result.length_check
               /\ r.warnings = result.warnings
               /\ r.core_value_scores = result.core_value_scores
               /\ r.ncs_competency_scores = result.ncs_competency_scores
               /\ r.similar_questions = result.similar_questions
               /\ r.position_skill_match = result.position_skill_match
  /\ (call = "_parse_response" /\ "raises" \notin DOMAIN result) =>
       \A other \in {o \in LLMResponses : Len(o) < 5} :
         LET r == _parse_response(other, args.request)
         IN  "raises" \notin DOMAIN r => r.length_check = result.length_check

\* C25 witness: a response of the LLM that carries a length_check, warnings
\* and core_value_scores of its own is returned with those of the request
C25_Witness ==
  /\ call = "_parse_response_v2"
  /\ "raises" \notin DOMAIN result
  /\ LET loaded == json_loads(args.llm_response)
     IN  /\ loaded.ok
         /\ loaded.v.t = "dict"
         /\ get(loaded.v, <<"l", "e", "n", "g", "t", "h", "_", "c", "h", "e", "c", "k">>, [t |-> "null"]).t = "dict"
         /\ get(loaded.v, <<"w", "a", "r", "n", "i", "n", "g", "s">>, [t |-> "null"]).t = "list"
         /\ get(loaded.v, <<"c", "o", "r", "e", "_", "v", "a", "l", "u", "e", "_", "s", "c", "o", "r", "e", "s">>, [t |-> "null"]).t = "list"
  /\ result.length_check.status = "short"
  /\ result.warnings # <<>>
  /\ result.core_value_scores # <<>>
  /\ result.similar_questions # <<>>

\* C28: for a response of the LLM that is not JSON, _parse_response_v2 does
\* not raise and returns overall_score 50, the grade 보통, empty strengths,
\* improvements and interview_questions, an empty model_answer with
\* model_answer_length 0, and the length_check and the warnings of the
\* answer of the request; _parse_response returns overall_score 50 with
\* empty feedbacks and match_rate 0.
C28_DefaultsOnInvalidJSON ==
  (call \in {"_parse_response", "_parse_response_v2"}
     /\ ~json_loads(args.llm_response).ok) =>
    /\ "raises" \notin DOMAIN result
    /\ result.overall_score = 50
    /\ result.keyword_analysis.match_rate = 0
    /\ result.length_check.current = Len(args.request.answer)
    /\ result.length_check
         = calculate_length_check(args.request.answer, args.request.maxLength)
    /\ call = "_parse_response" => result.feedbacks = <<>>
    /\ call = "_parse_response_v2" =>
         /\ result.overall_grade = <<"#bo", "#to-ng">>
         /\ result.strengths = <<>>
         /\ result.improvements = <<>>
         /\ result.interview_questions = <<>>
         /\ result.model_answer = <<>>
         /\ result.model_answer_length = 0
         /\ result.warnings
              = check_warnings(args.request.answer, args.request.organization)

\* C28 witness: a JSON text cut off in the middle gives the default response
\* with the warnings of the answer
C28_Witness ==
  /\ call = "_parse_response_v2"
  /\ args.llm_response # <<>>
  /\ args.llm_response[1] = "{"
  /\ ~json_loads(args.llm_response).ok
  /\ result.overall_score = 50
  /\ result.model_answer_length = 0
  /\ result.warnings # <<>>
  /\ result.length_check.current > 0

(***************************************************************************)
(* Further properties of the SectionClassifier and the SkillExtractor      *)
(* (checked under SpecResume)                                              *)
(***************************************************************************)
\* C27: classify_document returns no section with empty content for the
\* last header: a last header with nothing but blank lines after it (or
\* with no line after it) gives no section, so that the result has one
\* section less than the document has headers, and the section of any
\* other last header has content.
C27_NoEmptyTrailingSection ==
  call = "classify_document" =>
    LET lines == args.lines
        headers == Headers
        n == Len(headers)
    IN  n > 0 =>
          IF \A i \in (headers[n] + 1)..Len(lines) : Strip(lines[i]) = <<>>
          THEN Len(result) = n - 1
          ELSE /\ Len(result) = n
               /\ result[n].content # <<>>

\* C29: match_requirements matches a requirement exactly when its
\* lower-cased form is a substring of the lower-cased text: matched holds
\* the requirements that pass this test and missing the others, whatever
\* extract found.
C29_SubstringTest ==
  call = "match_requirements" =>
    LET inText(req) == Contains(Lower(req), Lower(args.resume_text))
    IN  /\ result.matched = SelectSeq(args.requirements, inText)
        /\ result.missing = SelectSeq(args.requirements, LAMBDA req : ~inText(req))

\* C29 witness: the requirement Go is matched by a text that holds "go"
\* only inside longer words, so that extract does not find the skill
C29_Witness ==
  /\ call = "match_requirements"
  /\ Contains(<<"g", "o", "i", "n", "g">>, args.resume_text)
  /\ \A k \in 1..Len(extract(args.resume_text)) :
        Lower(extract(args.resume_text)[k].name) # <<"g", "o">>
  /\ \E k \in 1..Len(result.matched) : result.matched[k] = <<"G", "o">>

(***************************************************************************)
(* A further property of the value scorer (checked under SpecScore)        *)
(***************************************************************************)
\* C30: analyze_core_values never returns the score 4: the scores are 3 and
\* 5 to 10; where the name of the value stands in the answer, so that 1 is
\* added, a keyword of the value is found as well and found is true; an
\* item with found false has the score 3.
C30_NeverFour ==
  call = "analyze_core_values" =>
    \A k \in 1..Len(result) :
       /\ result[k].score \in {3, 5, 6, 7, 8, 9, 10}
       /\ Contains(Strip(args.core_values[k]), args.answer) => result[k].found
       /\ ~result[k].found => result[k].score = 3

\* C30 witness: a value that is not in the keyword table and whose name
\* stands in the answer has the score 6 and found true, next to a value with
\* found false and the score 3
C30_Witness ==
  /\ call = "analyze_core_values"
  /\ \E j, k \in 1..Len(result) :
        /\ \A e \in 1..Len(value_keywords) : value_keywords[e].name # result[j].value
        /\ Contains(result[j].value, args.answer)
        /\ result[j].found
        /\ result[j].score = 6
        /\ ~result[k].found
        /\ result[k].score = 3

(***************************************************************************)
(* The whole service                                                       *)
(***************************************************************************)
Next == NextWarn \/ NextScore \/ NextSimilar \/ Call_format_model_answer_paragraphs
  \/ Call_extract \/ Call_match_requirements \/ Call_classify \/ Call_classify_document
  \/ Call_calculate_length_check \/ Call_parse_response \/ Call_parse_response_v2
  \/ Call_get_organization

Spec == Init /\ [][Next]_vars

====
